---- MODULE Spec2Model ----
(***************************************************************************)
(* A model of the MovistarKOI data aggregation pipeline: the aggregation   *)
(* service (team discovery, TTL cache, public queries), the wiki scraper's *)
(* rate-limit gate and page fetch, the tournament merge, the match mapper, *)
(* the reminder scheduler, the schedule-page parsers, the CoD map          *)
(* enrichment, the timers of the outgoing HTTP calls, the standings and    *)
(* the calendar hook.                                                      *)
(*                                                                         *)
(* The repository holds two generations of the aggregation service: the    *)
(* current one (src/unnamed/part_006, with the singleton discovery         *)
(* promise) and the earlier one (src/src/services/dataService.ts, without  *)
(* it and with placeholder matches).  The variable impl says which one a   *)
(* behaviour runs.                                                         *)
(***************************************************************************)
EXTENDS Integers, Sequences, FiniteSets, TLC

VARIABLES
    \* ---- aggregation service (part_006 / dataService.ts) ----
    impl,             \* "singleton" (part_006) or "legacy" (dataService.ts)
    now,              \* Date.now(), in seconds
    cache,            \* cache: key -> [has, data, timestamp]
    koiPandaTeamIds,  \* the discovered id set
    initPromise,      \* _initPromise: TRUE while a discovery promise is stored
    runner,           \* the running _doInitialize: [pc, attempt]
    op,               \* per caller: the public query it is in
    pc,               \* per caller: where it is suspended
    issued,           \* per caller: this call issued a network request
    prior,            \* per caller: fresh completed result of the same query at call time
    result,           \* per caller: the data the call resolved to
    seen,             \* per caller: the id set it read when discovery settled
    faulted,          \* per caller: a transport failure hit this call
    afterFail,        \* per caller: it completed while the last discovery had failed
    burst,            \* the callers that called during the discovery in flight (or the last one)
    lastDiscovery,    \* outcome of the last finished discovery
    lastDone          \* the last completed call: [q, data, time]

aggVars == <<impl, now, cache, koiPandaTeamIds, initPromise, runner, op, pc,
             issued, prior, result, seen, faulted, afterFail, burst,
             lastDiscovery, lastDone>>

VARIABLES
    \* ---- wiki scrapers (part_008 / liquipediaCodService.ts) ----
    scraper,          \* "wiki" (part_008) or "cod" (liquipediaCodService.ts)
    clock,            \* Date.now(), in milliseconds
    lastRequestTime,  \* lastRequestTime / lastCodRequestTime
    gap,              \* time between the last two requests the gate released,
                      \* up to the minimum interval
    fpc,              \* per page fetch: where fetchPageHtml is suspended
    wake,             \* per page fetch: when its pending timer fires
    requests,         \* per page fetch: HTTP requests issued so far
    t429,             \* per page fetch: when the 429 it is retrying after arrived
    waited,           \* per page fetch: time from the 429 to the retry request
    lastStatus,       \* per page fetch: the status of the last answer
    outcome           \* per page fetch: what fetchPageHtml gave its caller

rateVars == <<scraper, clock, lastRequestTime, gap, fpc, wake, requests, t429,
              waited, lastStatus, outcome>>

VARIABLES
    \* ---- tournament merge (startggDataService.ts) ----
    lpTournaments,    \* what fetchAllLiquipediaTournaments returns
    curated,          \* allCuratedTournaments
    unified,          \* the list the last operation returned
    mphase,           \* "input", "merged" (mergeTournaments), "fetched" or "threw"
                      \* (fetchLiquipediaWithFallback, the wiki answering or throwing)
    \* ---- match mapper (part_006) ----
    pandaMatch,       \* a match of the structured API
    koiTeamIds,       \* the id set the mapper is given
    mapped,           \* what mapPandaMatchToMatch returned
    mapPhase          \* "input" or "mapped"

VARIABLES
    \* ---- reminder scheduler (notificationService.ts) ----
    tz,               \* the device's offset from UTC, in minutes
    matches,          \* the matches scheduleMatchReminders is given
    prefs,            \* the stored notification preferences
    notifications,    \* the reminders the OS holds scheduled
    spc,              \* where scheduleMatchReminders is suspended
    ni,               \* the match the loop is at
    scheduledCount,   \* scheduledCount
    schedFailed       \* a scheduleNotificationAsync call of this run threw

notifVars == <<tz, matches, prefs, notifications, spc, ni, scheduledCount, schedFailed>>

VARIABLE
    \* ---- build configuration (config/pandascore) ----
    configured        \* isApiConfigured(): the token is neither empty nor the placeholder

mergeVars == <<lpTournaments, curated, unified, mphase>>
mapVars == <<pandaMatch, koiTeamIds, mapped, mapPhase>>

VARIABLES
    \* ---- schedule-page parsers (part_008) ----
    parser,           \* "tft" (parseUpcomingEventsFromSeasonPage) or "vgc" (parseUpcomingVGCEvents)
    pageRows,         \* the links of the page, in document order
    upcomingEvents,   \* the events the parser returned
    parsePhase        \* "input" or "parsed"

parseVars == <<parser, pageRows, upcomingEvents, parsePhase>>

VARIABLES
    \* ---- CoD map enrichment (liquipediaCodService.ts) ----
    codHome,          \* homeTeamName the caller passes; the other team is awayTeamName
    wikiMatch,        \* the wiki's record of the match: team1 and the maps, team1's score first
    codPc,            \* where fetchCodMatchMaps is suspended
    codResult,        \* what fetchCodMatchMaps returned
    codVia,           \* the path it returned by
    codCache          \* the cod-maps-... entry of the scraper's cache

codVars == <<codHome, wikiMatch, codPc, codResult, codVia, codCache>>

VARIABLE
    \* ---- outgoing HTTP calls (part_007, startggApi.ts, part_008, liquipediaCodService.ts) ----
    http              \* per kind of call: whether one is open, for how long, and how it ended

httpVars == <<http>>

VARIABLES
    \* ---- standings (part_006 resolveStandings) ----
    standingsIn,      \* what getStandingsByTournament holds for the match's tournament
    matchStanding,    \* standing and opponentStanding of the match
    standPhase        \* "input" or "resolved"

standVars == <<standingsIn, matchStanding, standPhase>>

VARIABLES
    \* ---- calendar hook (part_010 useCalendarData) ----
    upcomingData,     \* upcoming.matches: the list useUpcomingMatches holds
    upLoading,        \* upcoming.loading
    liveLoading,      \* live.loading
    reminderCall      \* the last call of scheduleMatchReminders made by the hook

calVars == <<upcomingData, upLoading, liveLoading, reminderCall>>

VARIABLES
    \* ---- one source match through the queries that return it (part_006) ----
    srcMatch,         \* the match as the structured API holds it
    homeSeen          \* per query: the id of the home team it last returned the match with

orientVars == <<srcMatch, homeSeen>>

VARIABLES
    \* ---- tournament builders (part_008, startggDataService.ts) ----
    tournamentIn,     \* what the source gave: builder, game, dates, start.gg state
    tournament,       \* the Tournament built: status and phases
    buildPc           \* "input" or "built"

phaseVars == <<tournamentIn, tournament, buildPc>>

VARIABLES
    \* ---- CoD enrichment race in fetchMatchDetails (part_006) ----
    detailMatch,      \* the mapped match: game, status, its games if any
    racePc,           \* "mapped", "racing", "returned"
    raceClock,        \* seconds since the race began
    enrichment,       \* enrichCodMatchGames: "none", "pending", "resolved", "rejected"
    detailGames,      \* mappedMatch.games: present or not, and which games are enriched
    raceVia           \* how the step ended: "none", "skipped", "enrichment", "timeout", "rejected"

raceVars == <<detailMatch, racePc, raceClock, enrichment, detailGames, raceVia>>

VARIABLES
    \* ---- extractBracketPopupGames (liquipediaCodService.ts) ----
    html,             \* the input string, one symbol per piece of text
    searchStart,      \* where the next marker search begins
    lastIdx,          \* the marker position the last iteration handled, -1 if none
    blocks,           \* the blocks pushed so far, as <<divStart, blockEnd>>
    bracketPc         \* "loop" or "returned"

bracketVars == <<html, searchStart, lastIdx, blocks, bracketPc>>

VARIABLES
    \* ---- overlapping scheduleMatchReminders calls (notificationService.ts) ----
    reminderMatches,  \* the upcoming matches of reminder-enabled teams both callers pass
    remindersOn,      \* the stored preferences enable match reminders
    runs,             \* per caller: where its call stands and its loop index
    osScheduled       \* what the OS holds: reminders scheduled per match

overlapVars == <<reminderMatches, remindersOn, runs, osScheduled>>

VARIABLES
    \* ---- useInitialize (part_010) ----
    initStarted,      \* _initStarted
    initReady,        \* _initReady
    initError,        \* _initError is set
    initListeners,    \* _initListeners: the components whose listener is subscribed
    comps             \* per component: mounted or not, effect run or not, the
                      \* ready value its last render returned, re-render scheduled

useinitVars == <<initStarted, initReady, initError, initListeners, comps>>

VARIABLES
    \* ---- internal lookup fields of mapped matches (part_006) ----
    fieldQuery,       \* the public query that maps the batch
    rawBatch,         \* the PandaScore matches: has a tournament id, has a serie id
    outBatch,         \* per match returned: the internal fields it carries
    fieldsPc          \* "fetched" or "returned"

fieldsVars == <<fieldQuery, rawBatch, outBatch, fieldsPc>>

VARIABLES
    \* ---- useAsync (part_010) ----
    hookMounted,      \* the component is mounted
    mountedRef,       \* mountedRef.current
    started,          \* how many fetches load() has started
    pending,          \* the fetches not yet settled
    hookData,         \* data: the fetch whose result is held, 0 for null
    hookLoading,      \* loading
    hookError,        \* error is set
    lateSet           \* a state setter ran after the component had unmounted

asyncVars == <<hookMounted, mountedRef, started, pending, hookData, hookLoading, hookError, lateSet>>

VARIABLES
    \* ---- calendar game filter (part_010 useUpcomingMatches, useCalendarData) ----
    gameFilter,       \* the filter the calendar screen passes to useCalendarData
    stateData,        \* state.data of useUpcomingMatches: all upcoming matches
    reminders         \* the matches that have a reminder scheduled

filterVars == <<gameFilter, stateData, reminders>>

coreVars == <<configured, aggVars, rateVars, mergeVars, mapVars, notifVars>>
extVars == <<parseVars, codVars, httpVars, standVars, calVars, orientVars, phaseVars, raceVars, bracketVars, overlapVars, useinitVars, fieldsVars, asyncVars, filterVars>>

\* What each part leaves alone.
notAgg == <<configured, rateVars, mergeVars, mapVars, notifVars, extVars>>
notRate == <<configured, aggVars, mergeVars, mapVars, notifVars, extVars>>
notMerge == <<configured, aggVars, rateVars, mapVars, notifVars, extVars>>
notMap == <<configured, aggVars, rateVars, mergeVars, notifVars, extVars>>
notNotif == <<configured, aggVars, rateVars, mergeVars, mapVars, extVars>>
notParse == <<coreVars, codVars, httpVars, standVars, calVars, orientVars, phaseVars, raceVars, bracketVars, overlapVars, useinitVars, fieldsVars, asyncVars, filterVars>>
notCod == <<coreVars, parseVars, httpVars, standVars, calVars, orientVars, phaseVars, raceVars, bracketVars, overlapVars, useinitVars, fieldsVars, asyncVars, filterVars>>
notHttp == <<coreVars, parseVars, codVars, standVars, calVars, orientVars, phaseVars, raceVars, bracketVars, overlapVars, useinitVars, fieldsVars, asyncVars, filterVars>>
notStand == <<coreVars, parseVars, codVars, httpVars, calVars, orientVars, phaseVars, raceVars, bracketVars, overlapVars, useinitVars, fieldsVars, asyncVars, filterVars>>
notCal == <<coreVars, parseVars, codVars, httpVars, standVars, orientVars, phaseVars, raceVars, bracketVars, overlapVars, useinitVars, fieldsVars, asyncVars, filterVars>>
notOrient == <<coreVars, parseVars, codVars, httpVars, standVars, calVars, phaseVars, raceVars, bracketVars, overlapVars, useinitVars, fieldsVars, asyncVars, filterVars>>
notPhase == <<coreVars, parseVars, codVars, httpVars, standVars, calVars, orientVars, raceVars, bracketVars, overlapVars, useinitVars, fieldsVars, asyncVars, filterVars>>
notRace == <<coreVars, parseVars, codVars, httpVars, standVars, calVars, orientVars, phaseVars, bracketVars, overlapVars, useinitVars, fieldsVars, asyncVars, filterVars>>
notBracket == <<coreVars, parseVars, codVars, httpVars, standVars, calVars, orientVars, phaseVars, raceVars, overlapVars, useinitVars, fieldsVars, asyncVars, filterVars>>
notOverlap == <<coreVars, parseVars, codVars, httpVars, standVars, calVars, orientVars, phaseVars, raceVars, bracketVars, useinitVars, fieldsVars, asyncVars, filterVars>>
notUseinit == <<coreVars, parseVars, codVars, httpVars, standVars, calVars, orientVars, phaseVars, raceVars, bracketVars, overlapVars, fieldsVars, asyncVars, filterVars>>
notFields == <<coreVars, parseVars, codVars, httpVars, standVars, calVars, orientVars, phaseVars, raceVars, bracketVars, overlapVars, useinitVars, asyncVars, filterVars>>
notAsync == <<coreVars, parseVars, codVars, httpVars, standVars, calVars, orientVars, phaseVars, raceVars, bracketVars, overlapVars, useinitVars, fieldsVars, filterVars>>
notFilter == <<coreVars, parseVars, codVars, httpVars, standVars, calVars, orientVars, phaseVars, raceVars, bracketVars, overlapVars, useinitVars, fieldsVars, asyncVars>>

vars == <<coreVars, extVars>>

(***************************************************************************)
(* Bounds                                                                  *)
(***************************************************************************)
NCallers == 2
MaxTicks == 5
\* Seconds the clock advances at a time.
TICK == 120

Callers == 1..NCallers

\* The organization's teams on the structured API.
TeamIds == {"t1", "t2"}

(***************************************************************************)
(* Cache                                                                   *)
(***************************************************************************)
\* TTLs, in seconds.
CACHE_TTL == 120
CACHE_TTL_LIVE == 30
INIT_TTL == 600
SGG_CACHE_TTL == 300

MatchKinds == {"upcoming", "live", "past"}
Queries == {"init", "detail"} \cup MatchKinds
TeamKinds == {"teams", "team", "teamMatches"}
AllQueries == Queries \cup TeamKinds \cup {"tournaments"}

CacheKeys == {"koi-teams-init", "upcoming-matches", "live-matches", "past-matches",
              "all-teams", "team", "team-matches", "tournaments-upcoming"}

CacheKey(q) ==
    CASE q = "upcoming" -> "upcoming-matches"
      [] q = "live" -> "live-matches"
      [] q = "past" -> "past-matches"
      [] q = "teams" -> "all-teams"
      [] q = "team" -> "team"
      [] q = "teamMatches" -> "team-matches"
      [] q = "tournaments" -> "tournaments-upcoming"
      [] OTHER -> "koi-teams-init"

TTL(q) ==
    CASE q = "live" -> CACHE_TTL_LIVE
      [] q = "tournaments" -> SGG_CACHE_TTL
      [] OTHER -> CACHE_TTL

NoEntry == [has |-> FALSE, data |-> {}, timestamp |-> 0]

\* getCached: the entry is served while now - timestamp < ttl.
Fresh(c, key, ttl, t) == c[key].has /\ t - c[key].timestamp < ttl

\* setCache
SetCache(c, key, data, t) ==
    [c EXCEPT ![key] = [has |-> TRUE, data |-> data, timestamp |-> t]]

(***************************************************************************)
(* Team discovery and the public queries                                   *)
(***************************************************************************)
MAX_RETRIES == 2

Impls == {"singleton", "legacy"}

\* The timer _doInitialize sets after its failed attempt number attempt, in
\* milliseconds.
BackoffDelay(attempt) == attempt * 2000

NoRunner == [pc |-> "none", attempt |-> 0, delay |-> 0]
NoDone == [q |-> "none", data |-> {}, time |-> 0]
NoPrior == [has |-> FALSE, data |-> {}]

\* The awaited calls that sit inside a try block (or behind a .catch) of the
\* function awaiting them, so that their rejection never leaves the public
\* query: findKoiTeams, getAll...Matches, getMatchById, the per-game deep fetch,
\* the per-team division fetch, getTeamById, the three ...MatchesByTeam calls and
\* the tournament fetch raced by raceTimeout.
GuardedCalls == {"find", "matches", "getMatch", "games", "divisions", "getTeam",
                 "teamMatches", "race"}

\* A service whose fetchMatchDetails awaits getMatchById outside its try block.
CaughtButGetMatch(call) == call \in GuardedCalls \ {"getMatch"}

Caught(call) == call \in GuardedCalls

\* A discovery is in flight: a stored promise (part_006) or a caller inside its
\* own findKoiTeams (dataService.ts).
InFlight == Cardinality({p \in Callers : pc[p] = "find"})
            + (IF runner.pc # "none" THEN 1 ELSE 0)

\* What the public function makes of the list its fetch returned.  The earlier
\* service injects getMockMatches into an empty upcoming or past list;
\* fetchAllTeams appends the static teams.
TopLevel(q, list) ==
    CASE q = "teams" -> list \cup {"static"}
      [] q \in {"upcoming", "past"} /\ impl = "legacy" /\ list = {} -> {"mock"}
      [] OTHER -> list

\* The earlier service caches every list; part_006 caches the match lists only
\* when they are not empty.  fetchAllTeams always caches.
CacheAfter(c, q, data, t) ==
    IF q = "teams" \/ impl = "legacy" \/ data # {}
    THEN SetCache(c, CacheKey(q), data, t) ELSE c

\* Where a caller goes once initializeKoiTeams has settled with id set ids.
NextPc(q, ids) ==
    CASE q = "init" -> "done"
      [] q = "detail" -> "games"
      [] q = "teams" -> IF ids = {} THEN "done" ELSE "divisions"
      [] OTHER -> IF ids = {} THEN "done" ELSE "matches"

\* The caller p of query q continues after initializeKoiTeams settled with ids,
\* over cache c and with ld the outcome of the last discovery.
Settle(p, q, ids, c, ld) ==
    LET toPc == NextPc(q, ids)
        data == IF q = "init" THEN {} ELSE TopLevel(q, {})
        fin == toPc = "done"
    IN /\ pc' = [pc EXCEPT ![p] = toPc]
       /\ seen' = [seen EXCEPT ![p] = ids]
       /\ result' = [result EXCEPT ![p] = IF fin THEN data ELSE {}]
       /\ cache' = IF fin /\ q # "init" THEN CacheAfter(c, q, data, now) ELSE c
       /\ lastDone' = IF fin /\ q # "init"
                      THEN [q |-> q, data |-> data, time |-> now]
                      ELSE lastDone
       /\ afterFail' = [afterFail EXCEPT ![p] = fin /\ ld = "failed"]

\* initializeKoiTeams, up to its first suspension, called by p inside query q.
EnterInit(p, q) ==
    IF ~configured
    THEN /\ Settle(p, q, koiPandaTeamIds, cache, lastDiscovery)
         /\ issued' = [issued EXCEPT ![p] = @ \/ NextPc(q, koiPandaTeamIds) # "done"]
         /\ UNCHANGED <<koiPandaTeamIds, initPromise, runner, burst>>
    ELSE IF Fresh(cache, "koi-teams-init", INIT_TTL, now)
    THEN /\ koiPandaTeamIds' = cache["koi-teams-init"].data
         /\ Settle(p, q, cache["koi-teams-init"].data, cache, lastDiscovery)
         /\ issued' = [issued EXCEPT ![p] = @ \/ NextPc(q, cache["koi-teams-init"].data) # "done"]
         /\ UNCHANGED <<initPromise, runner, burst>>
    ELSE /\ UNCHANGED <<koiPandaTeamIds, cache, result, seen, lastDone, afterFail>>
         /\ burst' = IF InFlight = 0 THEN {p} ELSE burst \cup {p}
         /\ IF impl = "singleton"
            THEN /\ pc' = [pc EXCEPT ![p] = "awaitInit"]
                 /\ IF initPromise
                    THEN UNCHANGED <<initPromise, runner, issued>>
                    ELSE /\ initPromise' = TRUE
                         /\ runner' = [pc |-> "find", attempt |-> 1, delay |-> 0]
                         /\ issued' = [issued EXCEPT ![p] = TRUE]
            ELSE /\ pc' = [pc EXCEPT ![p] = "find"]
                 /\ issued' = [issued EXCEPT ![p] = TRUE]
                 /\ UNCHANGED <<initPromise, runner>>

\* A fresh completed call of the same query, as the caller finds it on entry.
PriorOf(q) ==
    IF q # "init" /\ lastDone.q = q /\ now - lastDone.time < TTL(q)
    THEN [has |-> TRUE, data |-> lastDone.data] ELSE NoPrior

\* The queries that consult isApiConfigured before their first request, and
\* what they do without a token: initializeKoiTeams resolves, the match lists
\* and fetchMatchesByTeam are empty, fetchAllTeams is the static teams and
\* fetchTeamById finds no team.
ConfigGuarded == {"init", "teams", "team", "teamMatches"} \cup MatchKinds

Unconfigured(p, q) ==
    LET data == IF q \in {"init", "team", "teamMatches"} THEN {} ELSE TopLevel(q, {})
    IN /\ pc' = [pc EXCEPT ![p] = "done"]
       /\ result' = [result EXCEPT ![p] = data]
       /\ cache' = IF q \in MatchKinds \cup {"teams"} THEN CacheAfter(cache, q, data, now)
                   ELSE cache
       /\ lastDone' = IF q # "init" THEN [q |-> q, data |-> data, time |-> now] ELSE lastDone
       /\ afterFail' = [afterFail EXCEPT ![p] = lastDiscovery = "failed"]
       /\ seen' = [seen EXCEPT ![p] = koiPandaTeamIds]
       /\ UNCHANGED <<koiPandaTeamIds, initPromise, runner, issued, burst>>

\* The first awaited call of the queries that do not start with the discovery.
FirstCall(q) ==
    CASE q = "detail" -> "getMatch"
      [] q = "team" -> "getTeam"
      [] q = "teamMatches" -> "teamMatches"
      [] q = "tournaments" -> "race"
      [] OTHER -> "none"

\* A public query is called: initializeKoiTeams, fetchUpcomingMatches,
\* fetchLiveMatches, fetchPastMatches, fetchMatchDetails, fetchAllTeams,
\* fetchTeamById, fetchMatchesByTeam or fetchUpcomingTournaments.
Call(p, q) ==
    /\ UNCHANGED notAgg
    /\ pc[p] = "idle"
    /\ q = "tournaments" => impl = "singleton"
    /\ op' = [op EXCEPT ![p] = q]
    /\ prior' = [prior EXCEPT ![p] = PriorOf(q)]
    /\ UNCHANGED <<impl, now, lastDiscovery, faulted>>
    /\ IF q \notin {"init", "detail"} /\ Fresh(cache, CacheKey(q), TTL(q), now)
       THEN /\ pc' = [pc EXCEPT ![p] = "done"]
            /\ result' = [result EXCEPT ![p] = cache[CacheKey(q)].data]
            /\ lastDone' = [q |-> q, data |-> cache[CacheKey(q)].data, time |-> now]
            /\ afterFail' = [afterFail EXCEPT ![p] = lastDiscovery = "failed"]
            /\ UNCHANGED <<cache, koiPandaTeamIds, initPromise, runner, issued,
                           seen, burst>>
       ELSE IF ~configured /\ q \in ConfigGuarded
       THEN Unconfigured(p, q)
       ELSE IF FirstCall(q) # "none"
       THEN /\ pc' = [pc EXCEPT ![p] = FirstCall(q)]
            /\ issued' = [issued EXCEPT ![p] = TRUE]
            /\ UNCHANGED <<cache, koiPandaTeamIds, initPromise, runner, result,
                           seen, burst, lastDone, afterFail>>
       ELSE EnterInit(p, q)

\* The callers suspended on the stored promise continue, all in the same turn,
\* once _doInitialize has settled with id set ids and outcome ld.
SettleAll(ids, ld) ==
    LET W == {p \in Callers : pc[p] = "awaitInit"}
        fin(p) == NextPc(op[p], ids) = "done"
        D == {p \in W : op[p] # "init" /\ fin(p)}
        T == {p \in W : op[p] = "teams" /\ fin(p)}
    IN /\ pc' = [p \in Callers |-> IF p \in W THEN NextPc(op[p], ids) ELSE pc[p]]
       /\ seen' = [p \in Callers |-> IF p \in W THEN ids ELSE seen[p]]
       /\ result' = [p \in Callers |->
                       IF p \in D THEN TopLevel(op[p], {}) ELSE result[p]]
       /\ issued' = [p \in Callers |-> issued[p] \/ (p \in W /\ ~fin(p))]
       /\ afterFail' = [p \in Callers |->
                          IF p \in W THEN fin(p) /\ ld = "failed" ELSE afterFail[p]]
       /\ faulted' = [p \in Callers |-> faulted[p] \/ (p \in W /\ ld = "failed")]
       /\ lastDone' = IF D # {}
                      THEN LET w == CHOOSE p \in D : TRUE
                           IN [q |-> op[w], data |-> TopLevel(op[w], {}), time |-> now]
                      ELSE lastDone
       /\ cache' = LET c == IF ld = "ok" /\ ids # {}
                            THEN SetCache(cache, "koi-teams-init", ids, now) ELSE cache
                   IN IF T # {} THEN CacheAfter(c, "teams", TopLevel("teams", {}), now) ELSE c

\* _doInitialize (part_006:370-392): findKoiTeams answers with the teams found.
RunnerFindOk(found) ==
    /\ UNCHANGED notAgg
    /\ runner.pc = "find"
    /\ koiPandaTeamIds' = found
    /\ runner' = NoRunner
    /\ initPromise' = FALSE
    /\ lastDiscovery' = "ok"
    /\ SettleAll(found, "ok")
    /\ UNCHANGED <<impl, now, op, prior, burst>>

\* _doInitialize: findKoiTeams fails; back off, or give up after MAX_RETRIES.
\* Were the call outside the try, the promise would reject to its awaiters.
RunnerFindFail ==
    /\ UNCHANGED notAgg
    /\ runner.pc = "find"
    /\ IF ~Caught("find")
       THEN /\ runner' = NoRunner
            /\ initPromise' = FALSE
            /\ pc' = [p \in Callers |-> IF pc[p] = "awaitInit" THEN "rejected" ELSE pc[p]]
            /\ UNCHANGED <<lastDiscovery, seen, result, issued, afterFail, lastDone,
                           cache, faulted>>
       ELSE IF runner.attempt < MAX_RETRIES
       THEN /\ runner' = [runner EXCEPT !.pc = "backoff", !.delay = BackoffDelay(runner.attempt)]
            /\ UNCHANGED <<initPromise, lastDiscovery, pc, seen, result, issued,
                           afterFail, lastDone, cache, faulted>>
       ELSE /\ runner' = NoRunner
            /\ initPromise' = FALSE
            /\ lastDiscovery' = "failed"
            /\ SettleAll(koiPandaTeamIds, "failed")
    /\ UNCHANGED <<impl, now, koiPandaTeamIds, op, prior, burst>>

\* _doInitialize: the back-off timer fires and the next attempt starts.
RunnerRetry ==
    /\ UNCHANGED notAgg
    /\ runner.pc = "backoff"
    /\ runner' = [pc |-> "find", attempt |-> runner.attempt + 1, delay |-> 0]
    /\ UNCHANGED <<impl, now, cache, koiPandaTeamIds, initPromise, op, pc, issued,
                   prior, result, seen, faulted, afterFail, burst, lastDiscovery,
                   lastDone>>

\* A rejection that no try block catches leaves the public query.
Reject(p) ==
    /\ pc' = [pc EXCEPT ![p] = "rejected"]
    /\ faulted' = [faulted EXCEPT ![p] = TRUE]
    /\ UNCHANGED <<impl, now, cache, koiPandaTeamIds, initPromise, runner, op,
                   issued, prior, result, seen, afterFail, burst, lastDiscovery,
                   lastDone>>

\* initializeKoiTeams of dataService.ts:210-234: the caller's own findKoiTeams
\* answers; the result is cached whatever it holds.
FindOk(p, found) ==
    /\ UNCHANGED notAgg
    /\ pc[p] = "find"
    /\ koiPandaTeamIds' = found
    /\ lastDiscovery' = "ok"
    /\ Settle(p, op[p], found, SetCache(cache, "koi-teams-init", found, now), "ok")
    /\ issued' = [issued EXCEPT ![p] = TRUE]
    /\ UNCHANGED <<impl, now, initPromise, runner, op, prior, burst, faulted>>

\* initializeKoiTeams of dataService.ts: findKoiTeams fails, the catch logs it.
FindFail(p) ==
    /\ UNCHANGED notAgg
    /\ pc[p] = "find"
    /\ IF Caught("find")
       THEN /\ lastDiscovery' = "failed"
            /\ Settle(p, op[p], koiPandaTeamIds, cache, "failed")
            /\ issued' = [issued EXCEPT ![p] = TRUE]
            /\ faulted' = [faulted EXCEPT ![p] = TRUE]
            /\ UNCHANGED <<impl, now, koiPandaTeamIds, initPromise, runner, op,
                           prior, burst>>
       ELSE Reject(p)

\* A call completes with data.
Complete(p, data) ==
    /\ pc' = [pc EXCEPT ![p] = "done"]
    /\ result' = [result EXCEPT ![p] = data]
    /\ lastDone' = [q |-> op[p], data |-> data, time |-> now]
    /\ afterFail' = [afterFail EXCEPT ![p] = lastDiscovery = "failed"]

\* An awaited call of p fails inside its try block: the catch returns the empty
\* fallback, nothing is cached.
Fallback(p) ==
    /\ Complete(p, TopLevel(op[p], {}))
    /\ cache' = IF op[p] \in MatchKinds
                THEN CacheAfter(cache, op[p], TopLevel(op[p], {}), now) ELSE cache
    /\ faulted' = [faulted EXCEPT ![p] = TRUE]
    /\ UNCHANGED <<impl, now, koiPandaTeamIds, initPromise, runner, op, issued,
                   prior, seen, burst, lastDiscovery>>

\* fetchPandaUpcoming/Live/Past: getAll...Matches(koiPandaTeamIds) answers with
\* the matches of some of the ids asked for.
MatchesReturn(p, list) ==
    /\ UNCHANGED notAgg
    /\ pc[p] = "matches"
    /\ list \subseteq seen[p]
    /\ Complete(p, TopLevel(op[p], list))
    /\ cache' = CacheAfter(cache, op[p], TopLevel(op[p], list), now)
    /\ UNCHANGED <<impl, now, koiPandaTeamIds, initPromise, runner, op, issued,
                   prior, seen, burst, lastDiscovery, faulted>>

\* fetchPandaUpcoming/Live/Past: the request fails and the catch returns [].
MatchesFail(p) ==
    /\ UNCHANGED notAgg
    /\ pc[p] = "matches"
    /\ IF Caught("matches") THEN Fallback(p) ELSE Reject(p)

\* fetchMatchDetails: getMatchById answers, then initializeKoiTeams is awaited.
GetMatchOk(p) ==
    /\ UNCHANGED notAgg
    /\ pc[p] = "getMatch"
    /\ EnterInit(p, "detail")
    /\ UNCHANGED <<impl, now, op, prior, lastDiscovery, faulted>>

\* fetchMatchDetails: getMatchById fails and the catch returns undefined.
GetMatchFail(p) ==
    /\ UNCHANGED notAgg
    /\ pc[p] = "getMatch"
    /\ IF Caught("getMatch") THEN Fallback(p) ELSE Reject(p)

\* fetchMatchDetails: the per-game deep fetches settle; a failed one keeps the
\* basic game.
GamesReturn(p, deep) ==
    /\ UNCHANGED notAgg
    /\ pc[p] = "games"
    /\ IF deep \/ Caught("games")
       THEN /\ Complete(p, IF deep THEN {"detail", "draft"} ELSE {"detail"})
            /\ faulted' = [faulted EXCEPT ![p] = @ \/ ~deep]
            /\ UNCHANGED <<impl, now, cache, koiPandaTeamIds, initPromise, runner,
                           op, issued, prior, seen, burst, lastDiscovery>>
       ELSE Reject(p)

\* fetchAllTeams: resolveDivisions settles (each team's fetch has its own catch
\* and falls back to the game's name); the teams are merged with the static
\* ones and cached.
DivisionsReturn(p, ok) ==
    /\ UNCHANGED notAgg
    /\ pc[p] = "divisions"
    /\ IF ok \/ Caught("divisions")
       THEN /\ Complete(p, TopLevel("teams", seen[p]))
            /\ cache' = CacheAfter(cache, "teams", TopLevel("teams", seen[p]), now)
            /\ faulted' = [faulted EXCEPT ![p] = @ \/ ~ok]
            /\ UNCHANGED <<impl, now, koiPandaTeamIds, initPromise, runner, op,
                           issued, prior, seen, burst, lastDiscovery>>
       ELSE Reject(p)

\* fetchTeamById / fetchMatchesByTeam: the request answers; the team is cached
\* when it maps to a team, the team's match list always.
TeamReturn(p, data) ==
    /\ UNCHANGED notAgg
    /\ pc[p] \in {"getTeam", "teamMatches"}
    /\ data \subseteq (IF pc[p] = "getTeam" THEN {"team"} ELSE {"m1"})
    /\ Complete(p, data)
    /\ cache' = IF pc[p] = "teamMatches" \/ data # {}
                THEN SetCache(cache, CacheKey(op[p]), data, now) ELSE cache
    /\ UNCHANGED <<impl, now, koiPandaTeamIds, initPromise, runner, op, issued,
                   prior, seen, burst, lastDiscovery, faulted>>

\* fetchTeamById / fetchMatchesByTeam: the request fails, the catch returns
\* undefined / [].
TeamFail(p) ==
    /\ UNCHANGED notAgg
    /\ pc[p] \in {"getTeam", "teamMatches"}
    /\ IF Caught(pc[p]) THEN Fallback(p) ELSE Reject(p)

\* fetchUpcomingTournaments: raceTimeout settles with the list of
\* sggFetchUpcomingTournaments, which caches a list that is not empty.
RaceReturn(p, data) ==
    /\ UNCHANGED notAgg
    /\ pc[p] = "race"
    /\ data \subseteq {"wiki"}
    /\ Complete(p, data)
    /\ cache' = IF data # {} THEN SetCache(cache, CacheKey(op[p]), data, now) ELSE cache
    /\ UNCHANGED <<impl, now, koiPandaTeamIds, initPromise, runner, op, issued,
                   prior, seen, burst, lastDiscovery, faulted>>

\* fetchUpcomingTournaments: the fetch rejects or the 12 s timer fires first;
\* raceTimeout resolves to null and the query to [].
RaceFail(p) ==
    /\ UNCHANGED notAgg
    /\ pc[p] = "race"
    /\ IF Caught("race") THEN Fallback(p) ELSE Reject(p)

\* The caller takes the result and is free to call again.
Return(p) ==
    /\ UNCHANGED notAgg
    /\ pc[p] = "done"
    /\ pc' = [pc EXCEPT ![p] = "idle"]
    /\ op' = [op EXCEPT ![p] = "none"]
    /\ issued' = [issued EXCEPT ![p] = FALSE]
    /\ prior' = [prior EXCEPT ![p] = NoPrior]
    /\ result' = [result EXCEPT ![p] = {}]
    /\ seen' = [seen EXCEPT ![p] = {}]
    /\ afterFail' = [afterFail EXCEPT ![p] = FALSE]
    /\ faulted' = [faulted EXCEPT ![p] = FALSE]
    /\ burst' = burst \ {p}
    /\ UNCHANGED <<impl, now, cache, koiPandaTeamIds, initPromise, runner,
                   lastDiscovery, lastDone>>

\* TICK seconds pass.
Tick ==
    /\ UNCHANGED notAgg
    /\ now < MaxTicks * TICK
    /\ now' = now + TICK
    /\ UNCHANGED <<impl, cache, koiPandaTeamIds, initPromise, runner, op, pc, issued,
                   prior, result, seen, faulted, afterFail, burst, lastDiscovery,
                   lastDone>>

AggStart(I) ==
    /\ impl \in I
    /\ now = 0
    /\ cache = [k \in CacheKeys |-> NoEntry]
    /\ koiPandaTeamIds = {}
    /\ initPromise = FALSE
    /\ runner = NoRunner
    /\ op = [p \in Callers |-> "none"]
    /\ pc = [p \in Callers |-> "idle"]
    /\ issued = [p \in Callers |-> FALSE]
    /\ prior = [p \in Callers |-> NoPrior]
    /\ result = [p \in Callers |-> {}]
    /\ seen = [p \in Callers |-> {}]
    /\ faulted = [p \in Callers |-> FALSE]
    /\ afterFail = [p \in Callers |-> FALSE]
    /\ burst = {}
    /\ lastDiscovery = "none"
    /\ lastDone = NoDone

\* The service of a build that holds a token.
AggInit(I) == AggStart(I) /\ configured = TRUE

(***************************************************************************)
(* The wiki scrapers: rate-limit gate and page fetch                       *)
(***************************************************************************)
\* Milliseconds.
MIN_REQUEST_INTERVAL == 2000
MIN_COD_REQUEST_INTERVAL == 2500
RETRY_DELAY == 10000

\* Milliseconds the clock advances at a time, and how often it does.
RTICK == 1000
MaxRateTicks == 13

\* Date.now() when the module is loaded: far from the initial lastRequestTime 0.
Epoch == 20 * RTICK

Scrapers == {"wiki", "cod"}

\* The two page fetches that fetchTFTTournaments starts with Promise.all.
Fetches == {"results", "upcoming"}

\* 0 stands for a request that failed without an answer (network error, abort).
Statuses == {200, 429, 500, 0}

NoTime == 0 - 1

Min(a, b) == IF a < b THEN a ELSE b

MinInterval == IF scraper = "cod" THEN MIN_COD_REQUEST_INTERVAL ELSE MIN_REQUEST_INTERVAL

\* rateLimitDelay, up to its await: the time to sleep at time t when the last
\* request was released at last.
GateWait(t, last) == IF t - last < MinInterval THEN MinInterval - (t - last) ELSE 0

\* A page fetch that retries after every 429.
RetryAfterEvery429(n, status) ==
    CASE status = 200 -> "body"
      [] status = 429 -> "retry"
      [] OTHER -> "nodata"

\* What fetchPageHtml makes of the answer to its n-th request.
AfterResponse(n, status) ==
    CASE status = 200 -> "body"
      [] status = 429 /\ n = 1 -> "retry"
      [] OTHER -> "nodata"

\* rateLimitDelay returns: lastRequestTime is set and the request goes out.
Release(f) ==
    /\ lastRequestTime' = clock
    /\ gap' = IF lastRequestTime = 0 THEN NoTime
                                       ELSE Min(clock - lastRequestTime, MinInterval)
    /\ fpc' = [fpc EXCEPT ![f] = "fetching"]
    /\ requests' = [requests EXCEPT ![f] = @ + 1]
    /\ waited' = [waited EXCEPT ![f] = IF t429[f] # NoTime THEN clock - t429[f] ELSE @]
    /\ t429' = [t429 EXCEPT ![f] = NoTime]
    /\ UNCHANGED wake

\* rateLimitDelay is entered: sleep for the time left, or return at once.
EnterGate(f) ==
    IF GateWait(clock, lastRequestTime) > 0
    THEN /\ fpc' = [fpc EXCEPT ![f] = "gate"]
         /\ wake' = [wake EXCEPT ![f] = clock + GateWait(clock, lastRequestTime)]
         /\ UNCHANGED <<lastRequestTime, gap, requests, waited, t429>>
    ELSE Release(f)

\* fetchPageHtml is called.
StartFetch(f) ==
    /\ UNCHANGED notRate
    /\ fpc[f] = "idle"
    /\ EnterGate(f)
    /\ UNCHANGED <<scraper, clock, lastStatus, outcome>>

\* The gate's timer fires.
GateWake(f) ==
    /\ UNCHANGED notRate
    /\ fpc[f] = "gate"
    /\ wake[f] <= clock
    /\ Release(f)
    /\ UNCHANGED <<scraper, clock, lastStatus, outcome>>

\* The request of f is answered with status (or fails).
Response(f, status) ==
    /\ UNCHANGED notRate
    /\ fpc[f] = "fetching"
    /\ lastStatus' = [lastStatus EXCEPT ![f] = status]
    /\ LET then == AfterResponse(requests[f], status)
       IN IF then = "retry"
          THEN /\ fpc' = [fpc EXCEPT ![f] = "backoff"]
               /\ wake' = [wake EXCEPT ![f] = clock + RETRY_DELAY]
               /\ t429' = [t429 EXCEPT ![f] = clock]
               /\ UNCHANGED outcome
          ELSE /\ fpc' = [fpc EXCEPT ![f] = "done"]
               /\ outcome' = [outcome EXCEPT ![f] =
                                IF then = "body"
                                THEN (IF requests[f] = 1 THEN "first" ELSE "retry")
                                ELSE "nodata"]
               /\ UNCHANGED <<wake, t429>>
    /\ UNCHANGED <<scraper, clock, lastRequestTime, gap, requests, waited>>

\* The 10 s timer fires: part_008 calls doFetch again, through the gate; the
\* CoD scraper fetches again at once.
BackoffWake(f) ==
    /\ UNCHANGED notRate
    /\ fpc[f] = "backoff"
    /\ wake[f] <= clock
    /\ IF scraper = "wiki"
       THEN EnterGate(f)
       ELSE /\ fpc' = [fpc EXCEPT ![f] = "fetching"]
            /\ requests' = [requests EXCEPT ![f] = @ + 1]
            /\ waited' = [waited EXCEPT ![f] = clock - t429[f]]
            /\ t429' = [t429 EXCEPT ![f] = NoTime]
            /\ UNCHANGED <<lastRequestTime, gap, wake>>
    /\ UNCHANGED <<scraper, clock, lastStatus, outcome>>

\* The caller takes the result of the page fetch.
FetchReturn(f) ==
    /\ UNCHANGED notRate
    /\ fpc[f] = "done"
    /\ fpc' = [fpc EXCEPT ![f] = "idle"]
    /\ requests' = [requests EXCEPT ![f] = 0]
    /\ t429' = [t429 EXCEPT ![f] = NoTime]
    /\ waited' = [waited EXCEPT ![f] = NoTime]
    /\ lastStatus' = [lastStatus EXCEPT ![f] = 0]
    /\ outcome' = [outcome EXCEPT ![f] = "none"]
    /\ UNCHANGED <<scraper, clock, lastRequestTime, gap, wake>>

\* RTICK milliseconds pass; no timer is left behind.
Advance ==
    /\ UNCHANGED notRate
    /\ clock < Epoch + MaxRateTicks * RTICK
    /\ \A f \in Fetches : fpc[f] \in {"gate", "backoff"} => wake[f] > clock
    /\ clock' = clock + RTICK
    /\ UNCHANGED <<scraper, lastRequestTime, gap, fpc, wake, requests, t429,
                   waited, lastStatus, outcome>>

RateInit(S) ==
    /\ scraper \in S
    /\ clock = Epoch
    /\ lastRequestTime = 0
    /\ gap = NoTime
    /\ fpc = [f \in Fetches |-> "idle"]
    /\ wake = [f \in Fetches |-> 0]
    /\ requests = [f \in Fetches |-> 0]
    /\ t429 = [f \in Fetches |-> NoTime]
    /\ waited = [f \in Fetches |-> NoTime]
    /\ lastStatus = [f \in Fetches |-> 0]
    /\ outcome = [f \in Fetches |-> "none"]


(***************************************************************************)
(* Tournament merge (startggDataService.ts)                                *)
(***************************************************************************)
MaxList == 2

\* Tournament names, as sequences of characters.
Names == {<<"K">>, <<" ", "k">>, <<"k", "\t", " ", "o">>, <<"k", " ", "O">>}

WikiTournaments == [name : Names, from : {"wiki"}, status : {"upcoming"}]
CuratedTournaments == [name : Names, from : {"curated"}, status : {"upcoming", "completed"}]

ListsOf(S) == UNION {[1..n -> S] : n \in 0..MaxList}

\* String.prototype.toLowerCase
ToLower(c) == CASE c = "K" -> "k" [] c = "O" -> "o" [] OTHER -> c

\* \s
IsSpace(c) == c \in {" ", "\t"}

RECURSIVE DropSpaces(_)
DropSpaces(s) == IF s # <<>> /\ IsSpace(Head(s)) THEN DropSpaces(Tail(s)) ELSE s

\* replace(/\s+/g, ' ')
RECURSIVE Collapse(_)
Collapse(s) ==
    IF s = <<>> THEN s
    ELSE IF IsSpace(Head(s)) THEN <<" ">> \o Collapse(DropSpaces(s))
    ELSE <<Head(s)>> \o Collapse(Tail(s))

RECURSIVE DropTrailing(_)
DropTrailing(s) ==
    IF s # <<>> /\ IsSpace(s[Len(s)]) THEN DropTrailing(SubSeq(s, 1, Len(s) - 1)) ELSE s

\* String.prototype.trim
Trim(s) == DropTrailing(DropSpaces(s))

\* The key of mergeTournaments: name.toLowerCase().replace(/\s+/g, ' ').trim()
NormalizeName(name) == Trim(Collapse([i \in 1..Len(name) |-> ToLower(name[i])]))

RECURSIVE Flatten(_)
Flatten(sources) ==
    IF sources = <<>> THEN <<>> ELSE Head(sources) \o Flatten(Tail(sources))

\* The loops of mergeTournaments: an entry is pushed unless its key was seen.
RECURSIVE MergeLoop(_, _, _)
MergeLoop(list, seenKeys, acc) ==
    IF list = <<>> THEN acc
    ELSE LET key == NormalizeName(Head(list).name)
         IN IF key \in seenKeys
            THEN MergeLoop(Tail(list), seenKeys, acc)
            ELSE MergeLoop(Tail(list), seenKeys \cup {key}, Append(acc, Head(list)))

\* A merge in which the last source that holds a name wins.
mergeLastSourceWins(sources) ==
    MergeLoop(Flatten([i \in 1..Len(sources) |-> sources[Len(sources) + 1 - i]]), {}, <<>>)

mergeTournaments(sources) == MergeLoop(Flatten(sources), {}, <<>>)

RECURSIVE Filter(_, _)
Filter(list, status) ==
    IF list = <<>> THEN <<>>
    ELSE IF Head(list).status = status THEN <<Head(list)>> \o Filter(Tail(list), status)
    ELSE Filter(Tail(list), status)

getCuratedTournamentsByStatus(all, status) == Filter(all, status)

\* A fallback that merges whatever the wiki gave with the upcoming curated
\* entries.
MergeAlways(lp, throws, all) ==
    mergeTournaments(<<IF throws THEN <<>> ELSE lp,
                       getCuratedTournamentsByStatus(all, "upcoming")>>)

\* fetchLiquipediaWithFallback, for the wiki answering lp or throwing.
fetchLiquipediaWithFallback(lp, throws, all) ==
    IF ~throws /\ Len(lp) > 0
    THEN mergeTournaments(<<lp, getCuratedTournamentsByStatus(all, "upcoming")>>)
    ELSE all

\* mergeTournaments(lpTournaments, allCuratedTournaments) is called.
Merge ==
    /\ UNCHANGED notMerge
    /\ mphase = "input"
    /\ unified' = mergeTournaments(<<lpTournaments, curated>>)
    /\ mphase' = "merged"
    /\ UNCHANGED <<lpTournaments, curated>>

\* fetchLiquipediaWithFallback is called; the wiki answers or throws.
FetchWithFallback(throws) ==
    /\ UNCHANGED notMerge
    /\ mphase = "input"
    /\ unified' = fetchLiquipediaWithFallback(lpTournaments, throws, curated)
    /\ mphase' = IF throws THEN "threw" ELSE "fetched"
    /\ UNCHANGED <<lpTournaments, curated>>

MergeInit(W, C) ==
    /\ lpTournaments \in W
    /\ curated \in C
    /\ unified = <<>>
    /\ mphase = "input"

MergeIdle == MergeInit({<<>>}, {<<>>})

(***************************************************************************)
(* Match mapper (part_006)                                                 *)
(***************************************************************************)
\* Team ids of the structured API.
TeamNums == {1, 2, 3}

\* A score, or the score of a team without a result.
Scores == {0, 2}
Undefined == 0 - 1

Slugs == {"valorant", "dota-2"}

\* Lists without repetition of at most two elements of S.
UpToTwo(S) ==
    {<<>>} \cup {<<a>> : a \in S} \cup {<<ab[1], ab[2]>> : ab \in {x \in S \X S : x[1] # x[2]}}

\* Results: one score for each of some of the teams, in any order.
ResultLists ==
    {[i \in DOMAIN x[1] |-> [team_id |-> x[1][i], score |-> x[2][i]]] :
        x \in UpToTwo(TeamNums) \X [1..2 -> Scores]}

PandaMatches == [slug : Slugs, opponents : UpToTwo(TeamNums), results : ResultLists]

NoGame == "none"

pandaGameToAppGame(slug) == IF slug = "valorant" THEN "valorant" ELSE NoGame

\* results.find((r) => r.team_id === id)?.score
RECURSIVE FindScore(_, _)
FindScore(results, id) ==
    IF results = <<>> THEN Undefined
    ELSE IF Head(results).team_id = id THEN Head(results).score
    ELSE FindScore(Tail(results), id)

\* A mapper that takes the first listed opponent for the organization's team.
FirstListedIsKoi(m, ids) == TRUE

\* koiTeamIds.includes(opponent1.id)
koiIsFirst(m, ids) == m.opponents[1] \in ids

NoSide == [id |-> 0, score |-> Undefined]
NullMatch == [isNull |-> TRUE, teamId |-> 0, homeTeam |-> NoSide, awayTeam |-> NoSide]

mapPandaMatchToMatch(m, ids) ==
    IF pandaGameToAppGame(m.slug) = NoGame \/ Len(m.opponents) < 2 THEN NullMatch
    ELSE LET koiOpponent == IF koiIsFirst(m, ids) THEN m.opponents[1] ELSE m.opponents[2]
             otherOpponent == IF koiIsFirst(m, ids) THEN m.opponents[2] ELSE m.opponents[1]
         IN [isNull |-> FALSE,
             teamId |-> koiOpponent,
             homeTeam |-> [id |-> koiOpponent, score |-> FindScore(m.results, koiOpponent)],
             awayTeam |-> [id |-> otherOpponent, score |-> FindScore(m.results, otherOpponent)]]

\* mapPandaMatchToMatch(pandaMatch, koiTeamIds) is called.
MapMatch ==
    /\ UNCHANGED notMap
    /\ mapPhase = "input"
    /\ mapped' = mapPandaMatchToMatch(pandaMatch, koiTeamIds)
    /\ mapPhase' = "mapped"
    /\ UNCHANGED <<pandaMatch, koiTeamIds>>

MapInit(M, I) ==
    /\ pandaMatch \in M
    /\ koiTeamIds \in I
    /\ mapped = NullMatch
    /\ mapPhase = "input"

MapIdle == MapInit({[slug |-> "dota-2", opponents |-> <<>>, results |-> <<>>]}, {{}})

(***************************************************************************)
(* Reminder scheduler (notificationService.ts)                             *)
(***************************************************************************)
REMINDER_MINUTES == 15

MaxMatches == 2

\* Instants are minutes since the epoch.
DAY == 24 * 60

\* Date.now() during the call: noon UTC of some day.
NotifNow == 10 * DAY + 12 * 60

\* Offsets from UTC of the device's time zone, in minutes.
Zones == {0 - 300, 0, 60}

\* Kick-offs: in ten minutes, at 18:00 and at 23:30 UTC today, at 13:00 UTC
\* tomorrow.
Kickoffs == {NotifNow + 10, NotifNow + 6 * 60, NotifNow + 11 * 60 + 30, NotifNow + 25 * 60}

\* date of mapPandaMatchToMatch: dateObj.toISOString().split('T')[0], the day in
\* UTC.
MatchDate(instant) == instant \div DAY

\* time of mapPandaMatchToMatch: dateObj.toLocaleTimeString(...), the minute of
\* the day on the device's clock.
MatchTime(instant, zone) == (instant + zone) % DAY

\* A match of the structured API scheduled at kickoff, as the device maps it.
MatchOf(team, status, kickoff, zone) ==
    [teamId |-> team, status |-> status, kickoff |-> kickoff,
     date |-> MatchDate(kickoff), time |-> MatchTime(kickoff, zone)]

MatchesIn(zone) ==
    {MatchOf(x[1], x[2], x[3], zone) :
        x \in {"panda-1", "panda-2"} \X {"upcoming", "finished"} \X Kickoffs}

PrefLists ==
    {<<>>} \cup {<<p>> : p \in [teamId : {"panda-1"}, enabled : BOOLEAN,
                                matchReminders : BOOLEAN]}

\* A reminder left by an earlier run.
OldReminder == [match |-> 0, trigger |-> 0]

\* buildMatchDate: new Date(dateStr) is midnight UTC of the day; setHours sets
\* the time on the device's calendar day of that instant.
buildMatchDate(date, time, zone) ==
    LET midnightUtc == date * DAY
        localDay == (midnightUtc + zone) \div DAY
    IN localDay * DAY + time - zone

\* enabledTeamIds
EnabledTeamIds(ps) ==
    {ps[i].teamId : i \in {j \in DOMAIN ps : ps[j].enabled /\ ps[j].matchReminders}}

\* The loop body up to the scheduling call: is match m scheduled?
PassesFilters(m, enabled, zone) ==
    /\ m.status = "upcoming"
    /\ m.teamId \in enabled
    /\ ~(buildMatchDate(m.date, m.time, zone) - REMINDER_MINUTES <= NotifNow)

\* The first match from i on that reaches the scheduling call.
RECURSIVE NextScheduled(_, _, _, _)
NextScheduled(i, ms, enabled, zone) ==
    IF i > Len(ms) THEN i
    ELSE IF PassesFilters(ms[i], enabled, zone) THEN i
    ELSE NextScheduled(i + 1, ms, enabled, zone)

\* scheduleMatchReminders(matches) is called and awaits
\* cancelAllScheduledNotificationsAsync.
ScheduleCall ==
    /\ UNCHANGED notNotif
    /\ spc = "idle"
    /\ spc' = "cancel"
    /\ UNCHANGED <<tz, matches, prefs, notifications, ni, scheduledCount, schedFailed>>

\* Every scheduled notification is cancelled; the preferences are awaited.
CancelAll ==
    /\ UNCHANGED notNotif
    /\ spc = "cancel"
    /\ notifications' = <<>>
    /\ spc' = "prefs"
    /\ UNCHANGED <<tz, matches, prefs, ni, scheduledCount, schedFailed>>

\* The preferences arrive: return 0 without preferences or enabled teams, else
\* run the loop up to its first scheduling call.
PrefsLoaded ==
    /\ UNCHANGED notNotif
    /\ spc = "prefs"
    /\ LET first == NextScheduled(1, matches, EnabledTeamIds(prefs), tz)
       IN /\ ni' = first
          /\ spc' = IF Len(prefs) = 0 \/ EnabledTeamIds(prefs) = {} \/ first > Len(matches)
                    THEN "done" ELSE "loop"
    /\ scheduledCount' = 0
    /\ UNCHANGED <<tz, matches, prefs, notifications, schedFailed>>

\* scheduleNotificationAsync settles for match ni; the loop runs on to the next
\* scheduling call or to the end.
ScheduleOne(ok) ==
    /\ UNCHANGED notNotif
    /\ spc = "loop"
    /\ IF ok
       THEN /\ notifications' =
                  Append(notifications,
                         [match |-> ni,
                          trigger |-> buildMatchDate(matches[ni].date, matches[ni].time, tz)
                                      - REMINDER_MINUTES])
            /\ scheduledCount' = scheduledCount + 1
            /\ UNCHANGED schedFailed
       ELSE /\ schedFailed' = TRUE
            /\ UNCHANGED <<notifications, scheduledCount>>
    /\ LET next == NextScheduled(ni + 1, matches, EnabledTeamIds(prefs), tz)
       IN /\ ni' = next
          /\ spc' = IF next > Len(matches) THEN "done" ELSE "loop"
    /\ UNCHANGED <<tz, matches, prefs>>

NotifInit(Z, P, O) ==
    /\ tz \in Z
    /\ matches \in UNION {[1..n -> MatchesIn(tz)] : n \in 0..(IF P = {<<>>} THEN 0 ELSE MaxMatches)}
    /\ prefs \in P
    /\ notifications \in O
    /\ spc = "idle"
    /\ ni = 1
    /\ scheduledCount = 0
    /\ schedFailed = FALSE

NotifIdle == NotifInit({0}, {<<>>}, {<<>>})

(***************************************************************************)
(* Schedule-page parsers (part_008)                                        *)
(***************************************************************************)
MaxRows == 2

Parsers == {"tft", "vgc"}
KOI_TFT_REGIONS == {"EMEA", "Europe", "World"}

\* html.substring(linkMatch.index, linkMatch.index + 800), in characters.
CONTEXT_CHARS == 800

\* The date ranges a row can carry, in days relative to the day of the parse:
\* a single day (no end date) or a range.
DateRanges ==
    {[startDay |-> 0 - 1, endDay |-> 0 - 1, range |-> FALSE],
     [startDay |-> 0, endDay |-> 0, range |-> FALSE],
     [startDay |-> 0 - 2, endDay |-> 0 - 1, range |-> TRUE],
     [startDay |-> 3, endDay |-> 4, range |-> TRUE]}

\* A link that passed the href, length and keyword (VGC) filters, with the
\* section it stands in, the date that follows it, whether "TBD" follows it
\* in its own row, and the distance in characters to the next link.
PageRows ==
    [name : {"regional", "cup"}, region : {"EMEA", "APAC"}, date : DateRanges,
     tbd : BOOLEAN, len : {400, 900}]

Pages == UNION {[1..n -> PageRows] : n \in 0..MaxRows}

\* today.setHours(0, 0, 0, 0), in minutes.
Today == 0

\* new Date(startDate + 'T00:00:00') and new Date(endDate + 'T23:59:59').
EventDate(d) == d.startDay * DAY
EndDate(d) == IF d.range THEN d.endDay * DAY + (DAY - 1) ELSE EventDate(d)

\* The offset of link j from link i <= j.
RECURSIVE Offset(_, _, _)
Offset(rows, i, j) == IF j <= i THEN 0 ELSE rows[j - 1].len + Offset(rows, i, j - 1)

\* contextAfter.includes('TBD'): the 800 characters after link i hold the
\* marker of every row that starts within them.
ContextHasTBD(rows, i) ==
    \E j \in i..Len(rows) : Offset(rows, i, j) < CONTEXT_CHARS /\ rows[j].tbd

\* The upcoming test of each parser.
IsUpcoming(which, rows, i) ==
    IF which = "tft"
    THEN EndDate(rows[i].date) >= Today /\ ContextHasTBD(rows, i)
    ELSE ~(EndDate(rows[i].date) < Today)

\* The loop over the links: a name seen before is skipped, and a name is
\* recorded as seen before its region and date are looked at.
RECURSIVE ParseFrom(_, _, _, _)
ParseFrom(which, rows, i, seenNames) ==
    IF i > Len(rows) THEN <<>>
    ELSE IF rows[i].name \in seenNames THEN ParseFrom(which, rows, i + 1, seenNames)
    ELSE LET rest == ParseFrom(which, rows, i + 1, seenNames \cup {rows[i].name})
         IN IF which = "tft" /\ rows[i].region \notin KOI_TFT_REGIONS THEN rest
            ELSE IF ~IsUpcoming(which, rows, i) THEN rest
            ELSE <<[name |-> rows[i].name, row |-> i, isUpcoming |-> TRUE]>> \o rest

parseUpcomingEventsFromSeasonPage(rows) == ParseFrom("tft", rows, 1, {})
parseUpcomingVGCEvents(rows) == ParseFrom("vgc", rows, 1, {})

ParsePage ==
    /\ UNCHANGED notParse
    /\ parsePhase = "input"
    /\ upcomingEvents' = IF parser = "tft" THEN parseUpcomingEventsFromSeasonPage(pageRows)
                         ELSE parseUpcomingVGCEvents(pageRows)
    /\ parsePhase' = "parsed"
    /\ UNCHANGED <<parser, pageRows>>

ParseInit(W, P) ==
    /\ parser \in W
    /\ pageRows \in P
    /\ upcomingEvents = <<>>
    /\ parsePhase = "input"

ParseIdle == ParseInit({"tft"}, {<<>>})

(***************************************************************************)
(* CoD map enrichment (liquipediaCodService.ts)                            *)
(***************************************************************************)
MaxMaps == 2

CodTeams == {"Toronto KOI", "OpTic Texas"}
OtherTeam(t) == CHOOSE u \in CodTeams : u # t

\* lower === 'koi' || lower.includes('movistar koi') || lower.includes('toronto koi')
isKoiTeamName(name) == name \in {"KOI", "Movistar KOI", "Toronto KOI"}

\* A map as the page parsers build it: the first score of the row is
\* homeScore, and the winner is the side with the higher score.
CodMap(s1, s2) ==
    [homeScore |-> s1, awayScore |-> s2,
     winnerId |-> IF s1 > s2 THEN "home" ELSE IF s2 > s1 THEN "away" ELSE "undefined"]

CodMaps == {CodMap(250, 200), CodMap(200, 250), CodMap(6, 3)}

WikiMatches ==
    [team1 : CodTeams, maps : UNION {[1..n -> CodMaps] : n \in 1..MaxMaps}]

flipMapOrientation(maps) ==
    [i \in DOMAIN maps |->
        [homeScore |-> maps[i].awayScore, awayScore |-> maps[i].homeScore,
         winnerId |-> IF maps[i].winnerId = "home" THEN "away"
                      ELSE IF maps[i].winnerId = "away" THEN "home" ELSE "undefined"]]

\* Strategy 1 of fetchCodMatchMaps: the orientation of a match found on the
\* tournament page.
Oriented(home, m) ==
    LET koiIsTeam1 == isKoiTeamName(m.team1)
        koiIsHome == isKoiTeamName(home)
        needsFlip == koiIsTeam1 # koiIsHome
    IN IF needsFlip THEN flipMapOrientation(m.maps) ELSE m.maps

NoCodEntry == [has |-> FALSE, data |-> <<>>]

\* fetchCodMatchMaps up to its first await: a cached list is returned as it is.
CodCall ==
    /\ UNCHANGED notCod
    /\ codPc \in {"idle", "done"}
    /\ IF codCache.has
       THEN /\ codResult' = codCache.data
            /\ codVia' = "cache"
            /\ codPc' = "done"
       ELSE /\ codResult' = <<>>
            /\ codVia' = "none"
            /\ codPc' = "tournament"
    /\ UNCHANGED <<codHome, wikiMatch, codCache>>

\* fetchKoiMatchesFromCurrentSeason answers: with the match and its maps
\* (found), or without.
CodTournamentReturn(found) ==
    /\ UNCHANGED notCod
    /\ codPc = "tournament"
    /\ IF found
       THEN /\ codResult' = Oriented(codHome, wikiMatch)
            /\ codCache' = [has |-> TRUE, data |-> codResult']
            /\ codVia' = "tournament"
            /\ codPc' = "done"
       ELSE /\ codPc' = "history"
            /\ UNCHANGED <<codResult, codCache, codVia>>
    /\ UNCHANGED <<codHome, wikiMatch>>

\* fetchKoiMatchHistory and the match page answer: parseMatchPageForMaps
\* finds the maps (found) or the loop ends without any.
CodMatchPageReturn(found) ==
    /\ UNCHANGED notCod
    /\ codPc = "history"
    /\ IF found
       THEN /\ codResult' = wikiMatch.maps
            /\ codCache' = [has |-> TRUE, data |-> codResult']
            /\ codVia' = "matchPage"
       ELSE /\ codResult' = <<>>
            /\ codVia' = "none"
            /\ UNCHANGED codCache
    /\ codPc' = "done"
    /\ UNCHANGED <<codHome, wikiMatch>>

CodInit(H, M) ==
    /\ codHome \in H
    /\ wikiMatch \in M
    /\ codPc = "idle"
    /\ codResult = <<>>
    /\ codVia = "none"
    /\ codCache = NoCodEntry

CodIdle == CodInit({"Toronto KOI"}, {[team1 |-> "Toronto KOI", maps |-> <<CodMap(6, 3)>>]})

(***************************************************************************)
(* Outgoing HTTP calls and their timers                                    *)
(***************************************************************************)
MaxOpen == 2

\* Seconds.
PANDASCORE_REQUEST_TIMEOUT == 10
FETCH_TIMEOUT == 15
TOURNAMENT_FETCH_TIMEOUT == 12
MaxWait == FETCH_TIMEOUT + 1

\* The calls a public query waits on: a structured API request inside a match
\* query, the GraphQL query inside fetchUpcomingTournaments (raced against a
\* timer) and inside fetchTournamentsByTeam (awaited as it is), a wiki page
\* fetch and the retry after a 429.
HttpCalls == {"matches", "tournaments", "teamTournaments", "wikiPage", "wikiRetry"}

NoTimer == 0 - 1

\* The abort timer the client arms around its fetch: PandaScoreAPI.fetch and
\* both fetchPageHtml arm one, StartGGClient.query passes no signal.
AbortAfter(c) ==
    CASE c = "matches" -> PANDASCORE_REQUEST_TIMEOUT
      [] c \in {"wikiPage", "wikiRetry"} -> FETCH_TIMEOUT
      [] OTHER -> NoTimer

\* raceTimeout around the promise the public query awaits.
RaceAfter(c) == IF c = "tournaments" THEN TOURNAMENT_FETCH_TIMEOUT ELSE NoTimer

TimerDue(c, limit) == limit # NoTimer /\ http[c].pc = "pending" /\ http[c].elapsed >= limit

NoCall == [pc |-> "idle", elapsed |-> 0, how |-> "none"]

HttpSend(c) ==
    /\ UNCHANGED notHttp
    /\ http[c].pc = "idle"
    /\ Cardinality({d \in HttpCalls : http[d].pc # "idle"}) < MaxOpen
    /\ http' = [http EXCEPT ![c] = [pc |-> "pending", elapsed |-> 0, how |-> "none"]]

\* The server answers (with any status); the query settles with the answer or
\* with its fallback.
HttpAnswer(c) ==
    /\ UNCHANGED notHttp
    /\ http[c].pc = "pending"
    /\ http' = [http EXCEPT ![c].pc = "done", ![c].how = "answered"]

\* controller.abort() fires: fetch rejects with AbortError and the caller's
\* catch settles the query.
HttpAbort(c) ==
    /\ UNCHANGED notHttp
    /\ TimerDue(c, AbortAfter(c))
    /\ http' = [http EXCEPT ![c].pc = "done", ![c].how = "aborted"]

\* The timer of raceTimeout fires and resolves the query with null; the request
\* behind it stays open.
HttpRace(c) ==
    /\ UNCHANGED notHttp
    /\ TimerDue(c, RaceAfter(c))
    /\ http' = [http EXCEPT ![c].pc = "done", ![c].how = "raced"]

\* A second passes; a timer that is due fires before the next one does.
HttpWait ==
    /\ UNCHANGED notHttp
    /\ \E c \in HttpCalls : http[c].pc = "pending" /\ http[c].elapsed < MaxWait
    /\ \A c \in HttpCalls : ~TimerDue(c, AbortAfter(c)) /\ ~TimerDue(c, RaceAfter(c))
    /\ http' = [c \in HttpCalls |->
                   IF http[c].pc = "pending" /\ http[c].elapsed < MaxWait
                   THEN [http[c] EXCEPT !.elapsed = @ + 1] ELSE http[c]]

\* The caller has its result; the next call of the kind can start.
HttpReturn(c) ==
    /\ UNCHANGED notHttp
    /\ http[c].pc = "done"
    /\ http' = [http EXCEPT ![c] = NoCall]

HttpInit == http = [c \in HttpCalls |-> NoCall]

HttpIdle == HttpInit

(***************************************************************************)
(* Standings (part_006 resolveStandings, ordinal)                          *)
(***************************************************************************)
MaxRank == 24

\* The ranks tried: every rank up to MaxRank and ranks beyond one hundred.
Ranks == (1..MaxRank) \cup {100 + k : k \in {1, 2, 3, 11, 12, 13, 21}}

\* The remainder operator of the language: the sign of the dividend.
JsRem(a, b) == IF a >= 0 THEN a % b ELSE 0 - ((0 - a) % b)

\* s[i] of ['th', 'st', 'nd', 'rd']: undefined outside the array.
SuffixAt(i) ==
    CASE i = 0 -> "th" [] i = 1 -> "st" [] i = 2 -> "nd" [] i = 3 -> "rd"
      [] OTHER -> "undefined"

\* ordinal with the teens left out: the last digit alone picks the suffix.
ordinalByLastDigit(n) ==
    IF SuffixAt(n % 10) # "undefined" THEN SuffixAt(n % 10) ELSE SuffixAt(0)

\* The suffix ordinal(n) appends: s[(v - 20) % 10] || s[v] || s[0].
ordinal(n) ==
    LET v == JsRem(n, 100)
        first == SuffixAt(JsRem(v - 20, 10))
        second == SuffixAt(v)
    IN IF first # "undefined" THEN first
       ELSE IF second # "undefined" THEN second ELSE SuffixAt(0)

\* `${ordinal(entry.rank)} / ${standings.length}`, kept as its three parts.
StandingText(rank, total) == [rank |-> rank, suffix |-> ordinal(rank), of |-> total]

NoStanding == [rank |-> 0, suffix |-> "undefined", of |-> 0]

StandingsInputs ==
    [koiRank : Ranks, oppRank : Ranks, total : {10, 200},
     koiListed : BOOLEAN, oppListed : BOOLEAN]

\* resolveStandings for one match: getStandingsByTournament answers with the
\* standings, with an empty list, or fails; the entries of the two teams are
\* looked up by team id.
ResolveStandings(answer) ==
    /\ UNCHANGED notStand
    /\ standPhase = "input"
    /\ matchStanding' =
          IF answer # "standings" THEN matchStanding
          ELSE [standing |-> IF standingsIn.koiListed
                             THEN StandingText(standingsIn.koiRank, standingsIn.total)
                             ELSE matchStanding.standing,
                opponentStanding |-> IF standingsIn.oppListed
                                     THEN StandingText(standingsIn.oppRank, standingsIn.total)
                                     ELSE matchStanding.opponentStanding]
    /\ standPhase' = IF answer = "standings" THEN "resolved" ELSE "none"
    /\ UNCHANGED standingsIn

StandInit(S) ==
    /\ standingsIn \in S
    /\ matchStanding = [standing |-> NoStanding, opponentStanding |-> NoStanding]
    /\ standPhase = "input"

StandIdle ==
    StandInit({[koiRank |-> 1, oppRank |-> 2, total |-> 10, koiListed |-> FALSE, oppListed |-> FALSE]})

(***************************************************************************)
(* Calendar hook (part_010 useCalendarData)                                *)
(***************************************************************************)
CalMatches == {"m1", "m2", "m3"}

NoReminderCall == [called |-> FALSE, with |-> {}]

\* The effect with dependencies [upcoming.matches, loading], run after a render
\* in which one of them changed: the scheduler is called when nothing is
\* loading and the list is not empty.
ReminderEffect(data, loading, last) ==
    IF ~loading /\ data # {} THEN [called |-> TRUE, with |-> data] ELSE last

\* A render after the hook's state changed to (data, up, live).
CalRender(data, up, live) ==
    /\ upcomingData' = data
    /\ upLoading' = up
    /\ liveLoading' = live
    /\ reminderCall' =
          IF data # upcomingData \/ (up \/ live) # (upLoading \/ liveLoading)
          THEN ReminderEffect(data, up \/ live, reminderCall)
          ELSE reminderCall

\* useAsync.load of the upcoming list starts: setLoading(true).
UpcomingLoadStart ==
    /\ UNCHANGED notCal
    /\ ~upLoading
    /\ CalRender(upcomingData, TRUE, liveLoading)

\* fetchUpcomingMatches resolves: setData(result), then setLoading(false).
UpcomingLoaded(data) ==
    /\ UNCHANGED notCal
    /\ upLoading
    /\ CalRender(data, FALSE, liveLoading)

\* fetchUpcomingMatches rejects: setError, then setLoading(false).
UpcomingFailed ==
    /\ UNCHANGED notCal
    /\ upLoading
    /\ CalRender(upcomingData, FALSE, liveLoading)

\* The live list reloads, every 30 seconds: setLoading(true), setLoading(false).
LiveLoadStart ==
    /\ UNCHANGED notCal
    /\ ~liveLoading
    /\ CalRender(upcomingData, upLoading, TRUE)

LiveLoaded ==
    /\ UNCHANGED notCal
    /\ liveLoading
    /\ CalRender(upcomingData, upLoading, FALSE)

CalInit(L) ==
    /\ upcomingData = {}
    /\ upLoading \in L
    /\ liveLoading \in L
    /\ reminderCall = NoReminderCall

CalIdle == CalInit({TRUE})

(***************************************************************************)
(* One match through the list, detail and team-matches queries (part_006)  *)
(***************************************************************************)
OrientQueries == {"list", "detail", "teamMatches"}

\* The matches the mapper maps.
MappableMatches ==
    {m \in PandaMatches : Len(m.opponents) = 2 /\ pandaGameToAppGame(m.slug) # NoGame}

OpponentsOf(m) == {m.opponents[i] : i \in DOMAIN m.opponents}

\* fetchPandaUpcoming/Live/Past with koiPandaTeamIds = ids: the API returns the
\* matches of the ids asked for, mapped with the same ids.
ListQuery(ids) ==
    /\ UNCHANGED notOrient
    /\ OpponentsOf(srcMatch) \cap ids # {}
    /\ homeSeen' = [homeSeen EXCEPT !["list"] = mapPandaMatchToMatch(srcMatch, ids).homeTeam.id]
    /\ UNCHANGED srcMatch

\* fetchMatchDetails with koiPandaTeamIds = ids after initializeKoiTeams.
DetailQuery(ids) ==
    /\ UNCHANGED notOrient
    /\ homeSeen' = [homeSeen EXCEPT !["detail"] = mapPandaMatchToMatch(srcMatch, ids).homeTeam.id]
    /\ UNCHANGED srcMatch

\* fetchMatchesByTeam('panda-' + t): the matches of team t, mapped with [t].
TeamMatchesQuery(t) ==
    /\ UNCHANGED notOrient
    /\ t \in OpponentsOf(srcMatch)
    /\ homeSeen' = [homeSeen EXCEPT !["teamMatches"] =
                        mapPandaMatchToMatch(srcMatch, {t}).homeTeam.id]
    /\ UNCHANGED srcMatch

OrientInit(M) ==
    /\ srcMatch \in M
    /\ homeSeen = [q \in OrientQueries |-> 0]

OrientIdle == OrientInit({[slug |-> "valorant", opponents |-> <<1, 2>>, results |-> <<>>]})

(***************************************************************************)
(* Tournament builders: wiki results, wiki upcoming events (part_008) and  *)
(* GraphQL mapping (startggDataService.ts)                                 *)
(***************************************************************************)
PhaseGames == {"tft", "pokemon_vgc"}

\* Dates of a source row in days around Today; range = an end date is given.
PhaseDates ==
    {[startDay |-> x[1], endDay |-> x[1] + x[2], range |-> x[3]] :
        x \in ((0 - 2) .. 1) \X (0 .. 4) \X BOOLEAN}

\* start.gg tournament.state: 1 created, 2 active, 3 completed.
SGGStates == {1, 2, 3}

TournamentInputs ==
    [builder : {"results", "upcomingEvents", "graphql"}, game : PhaseGames,
     dates : PhaseDates, state : SGGStates]

\* part_008 inferStatus(dateStr, endDateStr?)
inferStatus(d) ==
    IF EventDate(d) > Today THEN "upcoming"
    ELSE IF EndDate(d) >= Today /\ EventDate(d) <= Today THEN "live"
    ELSE "finished"

\* part_008 buildPhases(game, status): every phase gets the tournament's status.
wikiBuildPhases(game, status) ==
    IF game = "tft" THEN <<[day |-> 1, status |-> status]>>
    ELSE <<[day |-> 1, status |-> status], [day |-> 2, status |-> status]>>

tournamentStateToStatus(state) ==
    IF state = 2 THEN "live" ELSE IF state = 3 THEN "finished" ELSE "upcoming"

\* Math.max(1, Math.ceil((endDate - startDate) / one day)), dates given in days.
PhaseDays(d) == IF d.endDay - d.startDay < 1 THEN 1 ELSE d.endDay - d.startDay

\* startggDataService.ts buildPhases(tournament, game); range = startAt and
\* endAt are both set.
sggBuildPhases(in) ==
    LET status == tournamentStateToStatus(in.state)
        rest   == IF status = "finished" THEN "finished" ELSE "upcoming"
    IN  IF in.game = "tft"
        THEN IF in.dates.range
             THEN [d \in 1 .. Min(PhaseDays(in.dates), 3) |-> [day |-> d, status |-> rest]]
             ELSE <<[day |-> 1, status |-> status]>>
        ELSE <<[day |-> 1, status |-> status], [day |-> 2, status |-> rest]>>

\* part_008 buildTournamentsFromResults: status from the first row's date alone.
buildTournamentsFromResults ==
    /\ UNCHANGED notPhase
    /\ buildPc = "input"
    /\ tournamentIn.builder = "results"
    /\ LET status == inferStatus([tournamentIn.dates EXCEPT !.range = FALSE])
       IN  tournament' = [status |-> status,
                          phases |-> wikiBuildPhases(tournamentIn.game, status)]
    /\ buildPc' = "built"
    /\ UNCHANGED tournamentIn

\* part_008 buildTournamentsFromUpcomingEvents: status from start and end date.
buildTournamentsFromUpcomingEvents ==
    /\ UNCHANGED notPhase
    /\ buildPc = "input"
    /\ tournamentIn.builder = "upcomingEvents"
    /\ LET status == inferStatus(tournamentIn.dates)
       IN  tournament' = [status |-> status,
                          phases |-> wikiBuildPhases(tournamentIn.game, status)]
    /\ buildPc' = "built"
    /\ UNCHANGED tournamentIn

\* startggDataService.ts mapSGGTournament
mapSGGTournament ==
    /\ UNCHANGED notPhase
    /\ buildPc = "input"
    /\ tournamentIn.builder = "graphql"
    /\ tournament' = [status |-> tournamentStateToStatus(tournamentIn.state),
                      phases |-> sggBuildPhases(tournamentIn)]
    /\ buildPc' = "built"
    /\ UNCHANGED tournamentIn

PhaseInit(T) ==
    /\ tournamentIn \in T
    /\ tournament = [status |-> "upcoming", phases |-> <<>>]
    /\ buildPc = "input"

PhaseIdle ==
    PhaseInit({[builder |-> "results", game |-> "tft",
                dates |-> [startDay |-> 0, endDay |-> 0, range |-> FALSE], state |-> 1]})

(***************************************************************************)
(* CoD enrichment race at the end of fetchMatchDetails (part_006)          *)
(***************************************************************************)
ENRICH_TIMEOUT == 10
MaxRaceWait == ENRICH_TIMEOUT + 2
MaxDetailGames == 2

\* hasGames = mappedMatch.games is set (an empty array counts, being truthy).
DetailMatches ==
    [game : {"call_of_duty", "valorant"}, status : {"finished", "live"},
     hasGames : BOOLEAN, nGames : 0 .. MaxDetailGames]

\* The games as mapPandaMatchToMatch and the deep-detail step left them.
BaseGames(m) == [present |-> m.hasGames, enriched |-> {}]

\* enrichCodMatchGames: the games whose number has wiki map data come back
\* as enriched copies, the others as they were.
EnrichedGames(m, found) == [present |-> TRUE, enriched |-> found \cap (1 .. m.nGames)]

\* new Promise(resolve => setTimeout(() => resolve(mappedMatch.games!), 10_000)):
\* when it is due and what it resolves with.
RaceTimerLate(games) == [due |-> ENRICH_TIMEOUT + 1, value |-> games]

RaceTimer(games) == [due |-> ENRICH_TIMEOUT, value |-> games]

\* `mappedMatch.game === 'call_of_duty' && mappedMatch.games && status === 'finished'`
NeedsEnrichment(m) == m.game = "call_of_duty" /\ m.hasGames /\ m.status = "finished"

\* The match is mapped; either the race begins or the match is returned as is.
RaceStart ==
    /\ UNCHANGED notRace
    /\ racePc = "mapped"
    /\ IF NeedsEnrichment(detailMatch)
       THEN /\ racePc' = "racing"
            /\ enrichment' = "pending"
            /\ raceVia' = "none"
       ELSE /\ racePc' = "returned"
            /\ enrichment' = "none"
            /\ raceVia' = "skipped"
    /\ raceClock' = 0
    /\ UNCHANGED <<detailMatch, detailGames>>

\* A second passes; the timer fires no later than when it is due.
RaceWait ==
    /\ UNCHANGED notRace
    /\ racePc = "racing"
    /\ raceClock < RaceTimer(detailGames).due
    /\ raceClock < MaxRaceWait
    /\ raceClock' = raceClock + 1
    /\ UNCHANGED <<detailMatch, racePc, enrichment, detailGames, raceVia>>

\* enrichCodMatchGames resolves first: with enriched copies, or with the games
\* it was given (no games, no map data).
EnrichResolve(found) ==
    /\ UNCHANGED notRace
    /\ racePc = "racing"
    /\ enrichment = "pending"
    /\ enrichment' = "resolved"
    /\ detailGames' = EnrichedGames(detailMatch, found)
    /\ racePc' = "returned"
    /\ raceVia' = "enrichment"
    /\ UNCHANGED <<detailMatch, raceClock>>

\* enrichCodMatchGames rejects first: the catch logs and keeps the games.
EnrichReject ==
    /\ UNCHANGED notRace
    /\ racePc = "racing"
    /\ enrichment = "pending"
    /\ enrichment' = "rejected"
    /\ racePc' = "returned"
    /\ raceVia' = "rejected"
    /\ UNCHANGED <<detailMatch, raceClock, detailGames>>

\* The timer fires first and resolves the race with mappedMatch.games.
RaceTimeout ==
    /\ UNCHANGED notRace
    /\ racePc = "racing"
    /\ raceClock = RaceTimer(detailGames).due
    /\ detailGames' = RaceTimer(detailGames).value
    /\ racePc' = "returned"
    /\ raceVia' = "timeout"
    /\ UNCHANGED <<detailMatch, raceClock, enrichment>>

\* The enrichment settles after the race is over: nobody reads its result.
EnrichLate(out) ==
    /\ UNCHANGED notRace
    /\ racePc = "returned"
    /\ enrichment = "pending"
    /\ enrichment' = out
    /\ UNCHANGED <<detailMatch, racePc, raceClock, detailGames, raceVia>>

RaceInit(M) ==
    /\ detailMatch \in M
    /\ racePc = "mapped"
    /\ raceClock = 0
    /\ enrichment = "none"
    /\ detailGames = BaseGames(detailMatch)
    /\ raceVia = "none"

RaceIdle == RaceInit({[game |-> "valorant", status |-> "live", hasGames |-> FALSE, nGames |-> 0]})

(***************************************************************************)
(* extractBracketPopupGames (liquipediaCodService.ts)                      *)
(***************************************************************************)
MaxHtml == 4
MaxBlocks == 2

\* The input is a string over four pieces, each taken as one position:
\* "D" = `<div`, "C" = `</div>`, "M" = the marker text, "x" = anything else.
\* A game div `<div class="brkts-popup-body-game">` is "D" followed by "M".
HtmlSymbols == {"D", "C", "M", "x"}
HtmlInputs == UNION {[1 .. n -> HtmlSymbols] : n \in 1 .. MaxHtml}

\* String.indexOf(piece, from) and String.lastIndexOf(piece, from), positions
\* counted from 0, -1 when absent.
IndexOf(h, piece, from) ==
    LET hits == {p \in 0 .. Len(h) - 1 : p >= from /\ h[p + 1] = piece}
    IN  IF hits = {} THEN 0 - 1 ELSE CHOOSE p \in hits : \A q \in hits : p <= q

LastIndexOf(h, piece, from) ==
    LET hits == {p \in 0 .. Len(h) - 1 : p <= from /\ h[p + 1] = piece}
    IN  IF hits = {} THEN 0 - 1 ELSE CHOOSE p \in hits : \A q \in hits : p >= q

\* The inner loop: the end of the balanced block that begins at pos, or -1.
RECURSIVE MatchingClose(_, _, _)
MatchingClose(h, pos, depth) ==
    IF pos >= Len(h) THEN 0 - 1
    ELSE LET openDiv  == IndexOf(h, "D", pos)
             closeDiv == IndexOf(h, "C", pos)
         IN  IF closeDiv = 0 - 1 THEN 0 - 1
             ELSE IF openDiv # 0 - 1 /\ openDiv < closeDiv
                  THEN MatchingClose(h, openDiv + 1, depth + 1)
                  ELSE IF depth - 1 <= 0 THEN closeDiv + 1
                       ELSE MatchingClose(h, closeDiv + 1, depth - 1)

\* Where the search goes on after the marker at idx was handled.
NextSearchStart(h, idx) ==
    LET divStart == LastIndexOf(h, "D", idx)
        blockEnd == IF divStart = 0 - 1 THEN 0 - 1 ELSE MatchingClose(h, divStart, 0)
    IN  IF blockEnd > 0 THEN blockEnd ELSE idx + 1

\* One pass of the outer loop that finds a marker.
BracketIteration ==
    /\ UNCHANGED notBracket
    /\ bracketPc = "loop"
    /\ LET idx      == IndexOf(html, "M", searchStart)
           divStart == LastIndexOf(html, "D", idx)
           blockEnd == IF divStart = 0 - 1 THEN 0 - 1 ELSE MatchingClose(html, divStart, 0)
       IN  /\ idx # 0 - 1
           /\ lastIdx' = idx
           /\ blocks' = IF divStart # 0 - 1 /\ blockEnd > divStart /\ Len(blocks) < MaxBlocks
                        THEN Append(blocks, <<divStart, blockEnd>>)
                        ELSE blocks
           /\ searchStart' = NextSearchStart(html, idx)
    /\ UNCHANGED <<html, bracketPc>>

\* No marker from searchStart on: the loop ends and the blocks are returned.
BracketReturn ==
    /\ UNCHANGED notBracket
    /\ bracketPc = "loop"
    /\ IndexOf(html, "M", searchStart) = 0 - 1
    /\ bracketPc' = "returned"
    /\ UNCHANGED <<html, searchStart, lastIdx, blocks>>

BracketInit(H) ==
    /\ html \in H
    /\ searchStart = 0
    /\ lastIdx = 0 - 1
    /\ blocks = <<>>
    /\ bracketPc = "loop"

BracketIdle == BracketInit({<<"x">>})

(***************************************************************************)
(* Overlapping calls of scheduleMatchReminders (notificationService.ts):   *)
(* the calendar hook (part_010) and savePreferences in                     *)
(* NotificationSettingsScreen.tsx call it without waiting for each other   *)
(***************************************************************************)
ReminderCallers == {"calendarHook", "savePreferences"}
ReminderIds == {"m1", "m2"}
ReminderLists == {<<"m1">>, <<"m1", "m2">>}

NoRun == [pc |-> "idle", i |-> 1]

\* A caller invokes scheduleMatchReminders(matches); it runs up to its first await.
OverlapCall(c) ==
    /\ UNCHANGED notOverlap
    /\ runs[c].pc \in {"idle", "done"}
    /\ runs' = [runs EXCEPT ![c] = [pc |-> "cancel", i |-> 1]]
    /\ UNCHANGED <<reminderMatches, remindersOn, osScheduled>>

\* await Notifications.cancelAllScheduledNotificationsAsync()
OverlapCancelAll(c) ==
    /\ UNCHANGED notOverlap
    /\ runs[c].pc = "cancel"
    /\ osScheduled' = [m \in ReminderIds |-> 0]
    /\ runs' = [runs EXCEPT ![c].pc = "prefs"]
    /\ UNCHANGED <<reminderMatches, remindersOn>>

\* await getNotificationPreferences(); return 0 when nothing is enabled.
OverlapPrefsLoaded(c) ==
    /\ UNCHANGED notOverlap
    /\ runs[c].pc = "prefs"
    /\ runs' = [runs EXCEPT ![c].pc = IF remindersOn THEN "loop" ELSE "done"]
    /\ UNCHANGED <<reminderMatches, remindersOn, osScheduled>>

\* One pass of the loop: await scheduleNotificationAsync for matches[i], which
\* may throw (caught); after the last match the call returns.
OverlapScheduleOne(c, ok) ==
    /\ UNCHANGED notOverlap
    /\ runs[c].pc = "loop"
    /\ LET i == runs[c].i
           m == reminderMatches[i]
       IN  /\ osScheduled' = IF ok THEN [osScheduled EXCEPT ![m] = @ + 1] ELSE osScheduled
           /\ runs' = [runs EXCEPT ![c] = [pc |-> IF i = Len(reminderMatches) THEN "done" ELSE "loop",
                                           i  |-> IF i = Len(reminderMatches) THEN i ELSE i + 1]]
    /\ UNCHANGED <<reminderMatches, remindersOn>>

OverlapInit(L) ==
    /\ reminderMatches \in L
    /\ remindersOn \in BOOLEAN
    /\ runs = [c \in ReminderCallers |-> NoRun]
    /\ osScheduled = [m \in ReminderIds |-> 0]

OverlapIdle ==
    /\ reminderMatches = <<"m1">>
    /\ remindersOn = FALSE
    /\ runs = [c \in ReminderCallers |-> NoRun]
    /\ osScheduled = [m \in ReminderIds |-> 0]

(***************************************************************************)
(* useInitialize and _ensureInit (part_010)                                *)
(***************************************************************************)
NComponents == 2
Components == 1 .. NComponents

Unmounted == [pc |-> "unmounted", ready |-> FALSE, dirty |-> FALSE]

\* The component renders for the first time: useInitialize returns _initReady
\* as it is now; its effect has not run yet.
ComponentRender(c) ==
    /\ UNCHANGED notUseinit
    /\ comps[c].pc = "unmounted"
    /\ comps' = [comps EXCEPT ![c] = [pc |-> "rendered", ready |-> initReady, dirty |-> FALSE]]
    /\ UNCHANGED <<initStarted, initReady, initError, initListeners>>

\* The effect of the first render runs: nothing when _initReady is already
\* set, else the listener is subscribed and _ensureInit() is called.
ComponentEffect(c) ==
    /\ UNCHANGED notUseinit
    /\ comps[c].pc = "rendered"
    /\ comps' = [comps EXCEPT ![c].pc = "mounted"]
    /\ IF initReady
       THEN UNCHANGED <<initStarted, initListeners>>
       ELSE /\ initListeners' = initListeners \cup {c}
            /\ initStarted' = TRUE
    /\ UNCHANGED <<initReady, initError>>

\* initializeKoiTeams() settles: .catch sets _initError, .finally sets
\* _initReady and calls every subscribed listener, which asks for a re-render.
InitSettled(ok) ==
    /\ UNCHANGED notUseinit
    /\ initStarted
    /\ ~initReady
    /\ initError' = ~ok
    /\ initReady' = TRUE
    /\ comps' = [c \in Components |->
                    IF c \in initListeners THEN [comps[c] EXCEPT !.dirty = TRUE] ELSE comps[c]]
    /\ UNCHANGED <<initStarted, initListeners>>

\* A re-render asked for by forceUpdate: the hook returns _initReady again.
ComponentRerender(c) ==
    /\ UNCHANGED notUseinit
    /\ comps[c].pc # "unmounted"
    /\ comps[c].dirty
    /\ comps' = [comps EXCEPT ![c].ready = initReady, ![c].dirty = FALSE]
    /\ UNCHANGED <<initStarted, initReady, initError, initListeners>>

\* The component unmounts: the effect's cleanup, if the effect subscribed.
ComponentUnmount(c) ==
    /\ UNCHANGED notUseinit
    /\ comps[c].pc = "mounted"
    /\ comps' = [comps EXCEPT ![c] = Unmounted]
    /\ initListeners' = initListeners \ {c}
    /\ UNCHANGED <<initStarted, initReady, initError>>

UseinitInit ==
    /\ initStarted = FALSE
    /\ initReady = FALSE
    /\ initError = FALSE
    /\ initListeners = {}
    /\ comps = [c \in Components |-> Unmounted]

UseinitIdle == UseinitInit

(***************************************************************************)
(* Internal lookup fields of the matches a query returns (part_006)        *)
(***************************************************************************)
MaxBatch == 2

FieldQueries == {"upcoming", "past", "live", "teamMatches", "detail"}
RawMatches == [tournament : BOOLEAN, serie : BOOLEAN]
RawBatches == UNION {[1 .. n -> RawMatches] : n \in 0 .. MaxBatch}

\* mapPandaMatchToMatch: _koiTeamId and _opponentTeamId are always set,
\* _tournamentId and _serieId when the match has them.
InternalFields(m) ==
    {"_koiTeamId", "_opponentTeamId"}
        \cup (IF m.tournament THEN {"_tournamentId"} ELSE {})
        \cup (IF m.serie THEN {"_serieId"} ELSE {})

MapBatch(raw) == [i \in DOMAIN raw |-> InternalFields(raw[i])]

\* resolveStandings: returns at once when no match has a tournament id; else,
\* after the standings fetches (each with its own catch), deletes the four
\* fields of every match.
resolveStandingsFields(raw, batch) ==
    IF \A i \in DOMAIN raw : ~raw[i].tournament
    THEN batch
    ELSE [i \in DOMAIN batch |-> {}]

\* fetchPandaUpcoming / fetchPandaPast: map, then resolveStandings.
FetchWithStandings ==
    /\ UNCHANGED notFields
    /\ fieldsPc = "fetched"
    /\ fieldQuery \in {"upcoming", "past"}
    /\ outBatch' = resolveStandingsFields(rawBatch, MapBatch(rawBatch))
    /\ fieldsPc' = "returned"
    /\ UNCHANGED <<fieldQuery, rawBatch>>

\* fetchPandaLive, fetchMatchesByTeam, fetchMatchDetails: map and return.
FetchWithoutStandings ==
    /\ UNCHANGED notFields
    /\ fieldsPc = "fetched"
    /\ fieldQuery \in {"live", "teamMatches", "detail"}
    /\ outBatch' = MapBatch(rawBatch)
    /\ fieldsPc' = "returned"
    /\ UNCHANGED <<fieldQuery, rawBatch>>

FieldsInit(Q, B) ==
    /\ fieldQuery \in Q
    /\ rawBatch \in B
    /\ fieldQuery = "detail" => Len(rawBatch) = 1
    /\ outBatch = <<>>
    /\ fieldsPc = "fetched"

FieldsIdle == FieldsInit({"live"}, {<<>>})

(***************************************************************************)
(* useAsync (part_010): fetches are numbered in the order load() starts    *)
(* them; the result of fetch n is written n                                *)
(***************************************************************************)
MaxFetches == 3

\* load(): setLoading(true), setError(null), then the fetcher is awaited.
LoadStart ==
    /\ started' = started + 1
    /\ pending' = pending \cup {started + 1}
    /\ hookLoading' = TRUE
    /\ hookError' = FALSE

\* The inputs change: the effect's cleanup clears mountedRef, the effect of
\* the new load sets it again and calls load().
DepsChange ==
    /\ UNCHANGED notAsync
    /\ hookMounted
    /\ started < MaxFetches
    /\ mountedRef' = TRUE
    /\ LoadStart
    /\ UNCHANGED <<hookMounted, hookData, lateSet>>

\* refresh() (or the auto-refresh interval) calls load() again.
Refresh ==
    /\ UNCHANGED notAsync
    /\ hookMounted
    /\ started < MaxFetches
    /\ LoadStart
    /\ UNCHANGED <<hookMounted, mountedRef, hookData, lateSet>>

\* The fetcher of fetch f resolves: setData and setLoading(false) when
\* mountedRef.current is set.
FetchResolved(f) ==
    /\ UNCHANGED notAsync
    /\ f \in pending
    /\ pending' = pending \ {f}
    /\ IF mountedRef
       THEN /\ hookData' = f
            /\ hookLoading' = FALSE
            /\ lateSet' = (lateSet \/ ~hookMounted)
       ELSE UNCHANGED <<hookData, hookLoading, lateSet>>
    /\ UNCHANGED <<hookMounted, mountedRef, started, hookError>>

\* The fetcher of fetch f rejects: setError and setLoading(false) when
\* mountedRef.current is set.
FetchRejected(f) ==
    /\ UNCHANGED notAsync
    /\ f \in pending
    /\ pending' = pending \ {f}
    /\ IF mountedRef
       THEN /\ hookError' = TRUE
            /\ hookLoading' = FALSE
            /\ lateSet' = (lateSet \/ ~hookMounted)
       ELSE UNCHANGED <<hookError, hookLoading, lateSet>>
    /\ UNCHANGED <<hookMounted, mountedRef, started, hookData>>

\* The component unmounts: the effect's cleanup clears mountedRef.
HookUnmount ==
    /\ UNCHANGED notAsync
    /\ hookMounted
    /\ hookMounted' = FALSE
    /\ mountedRef' = FALSE
    /\ UNCHANGED <<started, pending, hookData, hookLoading, hookError, lateSet>>

\* After the mount: the first effect has set mountedRef and called load().
AsyncInit ==
    /\ hookMounted = TRUE
    /\ mountedRef = TRUE
    /\ started = 1
    /\ pending = {1}
    /\ hookData = 0
    /\ hookLoading = TRUE
    /\ hookError = FALSE
    /\ lateSet = FALSE

AsyncIdle == AsyncInit

(***************************************************************************)
(* Calendar game filter and the reminders (part_010, notificationService)  *)
(***************************************************************************)
FilterGames == {"league_of_legends", "valorant", "call_of_duty"}
GameFilters == {"all"} \cup FilterGames

\* An upcoming match with a kick-off still ahead: its game, and whether its
\* team has match reminders enabled.
FilterMatches == [game : FilterGames, enabled : BOOLEAN]

\* useUpcomingMatches: filteredMatches
filteredMatches(data, filter) ==
    IF filter # "all" THEN {m \in data : m.game = filter} ELSE data

\* scheduleMatchReminders(matches), run to its end: everything is cancelled,
\* then one reminder per match given whose team has reminders enabled.
ScheduledFrom(given) == {m \in given : m.enabled}

\* The effect of useCalendarData after a render with upcoming.matches = given:
\* it calls the scheduler only with a list that is not empty.
FilterEffect(given, held) == IF given # {} THEN ScheduledFrom(given) ELSE held

\* fetchUpcomingMatches resolves with data; the hook renders, the effect runs.
FilterDataLoaded(data) ==
    /\ UNCHANGED notFilter
    /\ data # stateData
    /\ stateData' = data
    /\ reminders' = FilterEffect(filteredMatches(data, gameFilter), reminders)
    /\ UNCHANGED gameFilter

\* The user picks another game filter; the hook renders with another array as
\* upcoming.matches (a new one from filter(), or state.data), the effect runs.
SetGameFilter(g) ==
    /\ UNCHANGED notFilter
    /\ g # gameFilter
    /\ gameFilter' = g
    /\ reminders' = FilterEffect(filteredMatches(stateData, g), reminders)
    /\ UNCHANGED stateData

FilterInit ==
    /\ gameFilter = "all"
    /\ stateData = {}
    /\ reminders = {}

FilterIdle == FilterInit

\* The parts that are at rest in the specifications of the other parts.
CoreIdle == AggInit({"singleton"}) /\ RateInit({"wiki"}) /\ MergeIdle /\ MapIdle /\ NotifIdle
ExtIdle == ParseIdle /\ CodIdle /\ HttpIdle /\ StandIdle /\ CalIdle /\ OrientIdle /\ PhaseIdle /\ RaceIdle /\ BracketIdle /\ OverlapIdle /\ UseinitIdle /\ FieldsIdle /\ AsyncIdle /\ FilterIdle

\* The steps of a caller p inside a match query; the structured API answers
\* with one of the id sets in answers.
Step(p, answers) ==
    \/ \E found \in answers : FindOk(p, found)
    \/ FindFail(p)
    \/ \E list \in answers : MatchesReturn(p, list)
    \/ MatchesFail(p)
    \/ Return(p)

\* The steps of fetchMatchDetails.
DetailStep(p) ==
    \/ GetMatchOk(p)
    \/ GetMatchFail(p)
    \/ \E deep \in BOOLEAN : GamesReturn(p, deep)

\* The steps of fetchAllTeams, fetchTeamById, fetchMatchesByTeam and
\* fetchUpcomingTournaments.
OtherStep(p) ==
    \/ \E ok \in BOOLEAN : DivisionsReturn(p, ok)
    \/ \E data \in SUBSET {"team", "m1"} : TeamReturn(p, data)
    \/ TeamFail(p)
    \/ \E data \in SUBSET {"wiki"} : RaceReturn(p, data)
    \/ RaceFail(p)

\* The steps of the running _doInitialize.
RunnerStep(answers) ==
    \/ \E found \in answers : RunnerFindOk(found)
    \/ RunnerFindFail
    \/ RunnerRetry

\* Concurrent callers of the discovery and of a query that needs it, at one
\* instant.
Next ==
    \/ \E p \in Callers, q \in {"init", "upcoming"} : Call(p, q)
    \/ \E p \in Callers : Step(p, SUBSET TeamIds)
    \/ RunnerStep(SUBSET TeamIds)

Init == AggInit(Impls) /\ RateInit({"wiki"}) /\ MergeIdle /\ MapIdle /\ NotifIdle /\ ExtIdle

Spec == Init /\ [][Next]_vars

\* One caller of the discovery, the upcoming and live queries (the past query
\* is built like the upcoming one) and the match detail, over time.
NextTTL ==
    \/ \E q \in Queries \ {"past"} : Call(1, q)
    \/ Step(1, {{}, TeamIds})
    \/ DetailStep(1)
    \/ RunnerStep({{}, TeamIds})
    \/ Tick

SpecTTL == Init /\ [][NextTTL]_vars

\* One caller of every public query, every request free to fail.
NextErr ==
    \/ \E q \in AllQueries : Call(1, q)
    \/ Step(1, {{}, TeamIds})
    \/ DetailStep(1)
    \/ OtherStep(1)
    \/ RunnerStep({{}, TeamIds})

SpecErr == Init /\ [][NextErr]_vars

\* Page fetches of one scraper, concurrent and repeated, over time.
NextRate ==
    \/ \E f \in Fetches : StartFetch(f)
    \/ \E f \in Fetches : GateWake(f)
    \/ \E f \in Fetches, status \in Statuses : Response(f, status)
    \/ \E f \in Fetches : BackoffWake(f)
    \/ \E f \in Fetches : FetchReturn(f)
    \/ Advance

InitRate == AggInit({"singleton"}) /\ RateInit(Scrapers) /\ MergeIdle /\ MapIdle /\ NotifIdle /\ ExtIdle

SpecRate == InitRate /\ [][NextRate]_vars

\* The merge and the fallback over every wiki list and curated dataset.
NextMerge ==
    \/ Merge
    \/ \E throws \in BOOLEAN : FetchWithFallback(throws)

InitMerge ==
    /\ AggInit({"singleton"}) /\ RateInit({"wiki"}) /\ MapIdle /\ NotifIdle /\ ExtIdle
    /\ MergeInit(ListsOf(WikiTournaments), ListsOf(CuratedTournaments))

SpecMerge == InitMerge /\ [][NextMerge]_vars

\* The mapper over every match and id set.
NextMap == MapMatch

InitMap ==
    /\ AggInit({"singleton"}) /\ RateInit({"wiki"}) /\ MergeIdle /\ NotifIdle /\ ExtIdle
    /\ MapInit(PandaMatches, SUBSET TeamNums)

SpecMap == InitMap /\ [][NextMap]_vars

\* One run of the scheduler over every list of matches, stored preferences and
\* time zone.
NextNotif ==
    \/ ScheduleCall
    \/ CancelAll
    \/ PrefsLoaded
    \/ \E ok \in BOOLEAN : ScheduleOne(ok)

InitNotif ==
    /\ AggInit({"singleton"}) /\ RateInit({"wiki"}) /\ MergeIdle /\ MapIdle /\ ExtIdle
    /\ NotifInit(Zones, PrefLists, {<<>>, <<OldReminder>>})

SpecNotif == InitNotif /\ [][NextNotif]_vars

\* Each schedule-page parser over every page.
NextParse == ParsePage

InitParse == CoreIdle /\ ParseInit(Parsers, Pages) /\ CodIdle /\ HttpIdle /\ StandIdle /\ CalIdle /\ OrientIdle /\ PhaseIdle /\ RaceIdle /\ BracketIdle /\ OverlapIdle /\ UseinitIdle /\ FieldsIdle /\ AsyncIdle /\ FilterIdle

SpecParse == InitParse /\ [][NextParse]_vars

\* fetchCodMatchMaps for every caller orientation and wiki match, called
\* again after it returned.
NextCod ==
    \/ CodCall
    \/ \E found \in BOOLEAN : CodTournamentReturn(found)
    \/ \E found \in BOOLEAN : CodMatchPageReturn(found)

InitCod == CoreIdle /\ CodInit(CodTeams, WikiMatches) /\ ParseIdle /\ HttpIdle /\ StandIdle /\ CalIdle /\ OrientIdle /\ PhaseIdle /\ RaceIdle /\ BracketIdle /\ OverlapIdle /\ UseinitIdle /\ FieldsIdle /\ AsyncIdle /\ FilterIdle

SpecCod == InitCod /\ [][NextCod]_vars

\* One caller of every public query, in a build with a token and in one
\* without.
NextCfg == NextErr

InitCfg ==
    /\ AggStart(Impls) /\ configured \in BOOLEAN
    /\ RateInit({"wiki"}) /\ MergeIdle /\ MapIdle /\ NotifIdle /\ ExtIdle

SpecCfg == InitCfg /\ [][NextCfg]_vars

\* Calls of every kind against servers that answer late or never; time passes
\* and armed timers fire.
NextHttp ==
    \/ \E c \in HttpCalls : HttpSend(c)
    \/ \E c \in HttpCalls : HttpAnswer(c)
    \/ \E c \in HttpCalls : HttpAbort(c)
    \/ \E c \in HttpCalls : HttpRace(c)
    \/ \E c \in HttpCalls : HttpReturn(c)
    \/ HttpWait

InitHttp == CoreIdle /\ HttpInit /\ ParseIdle /\ CodIdle /\ StandIdle /\ CalIdle /\ OrientIdle /\ PhaseIdle /\ RaceIdle /\ BracketIdle /\ OverlapIdle /\ UseinitIdle /\ FieldsIdle /\ AsyncIdle /\ FilterIdle

SpecHttp ==
    /\ InitHttp /\ [][NextHttp]_vars
    /\ WF_vars(HttpWait)
    /\ \A c \in HttpCalls : WF_vars(HttpAbort(c)) /\ WF_vars(HttpRace(c))

\* resolveStandings over every pair of ranks.
NextStand == \E answer \in {"standings", "empty", "failed"} : ResolveStandings(answer)

InitStand == CoreIdle /\ StandInit(StandingsInputs) /\ ParseIdle /\ CodIdle /\ HttpIdle /\ CalIdle /\ OrientIdle /\ PhaseIdle /\ RaceIdle /\ BracketIdle /\ OverlapIdle /\ UseinitIdle /\ FieldsIdle /\ AsyncIdle /\ FilterIdle

SpecStand == InitStand /\ [][NextStand]_vars

\* The calendar screen: the upcoming and live lists load and reload.
NextCal ==
    \/ UpcomingLoadStart
    \/ \E data \in SUBSET CalMatches : UpcomingLoaded(data)
    \/ UpcomingFailed
    \/ LiveLoadStart
    \/ LiveLoaded

InitCal == CoreIdle /\ CalInit({TRUE}) /\ ParseIdle /\ CodIdle /\ HttpIdle /\ StandIdle /\ OrientIdle /\ PhaseIdle /\ RaceIdle /\ BracketIdle /\ OverlapIdle /\ UseinitIdle /\ FieldsIdle /\ AsyncIdle /\ FilterIdle

SpecCal == InitCal /\ [][NextCal]_vars

\* One match returned by each query, under every discovered id set.
NextOrient ==
    \/ \E ids \in SUBSET TeamNums : ListQuery(ids)
    \/ \E ids \in SUBSET TeamNums : DetailQuery(ids)
    \/ \E t \in TeamNums : TeamMatchesQuery(t)

InitOrient == CoreIdle /\ OrientInit(MappableMatches) /\ ParseIdle /\ CodIdle /\ HttpIdle /\ StandIdle /\ CalIdle /\ PhaseIdle /\ RaceIdle /\ BracketIdle /\ OverlapIdle /\ UseinitIdle /\ FieldsIdle /\ AsyncIdle /\ FilterIdle

SpecOrient == InitOrient /\ [][NextOrient]_vars

\* One tournament through one of the three source builders.
NextPhase ==
    \/ buildTournamentsFromResults
    \/ buildTournamentsFromUpcomingEvents
    \/ mapSGGTournament

InitPhase == CoreIdle /\ PhaseInit(TournamentInputs) /\ ParseIdle /\ CodIdle /\ HttpIdle /\ StandIdle /\ CalIdle /\ OrientIdle /\ RaceIdle /\ BracketIdle /\ OverlapIdle /\ UseinitIdle /\ FieldsIdle /\ AsyncIdle /\ FilterIdle

SpecPhase == InitPhase /\ [][NextPhase]_vars

\* The enrichment step of one fetchMatchDetails call.  The timer and the
\* passing of time are driven by the event loop; the enrichment may never
\* settle.
NextRace ==
    \/ RaceStart
    \/ RaceWait
    \/ \E found \in SUBSET (1 .. MaxDetailGames) : EnrichResolve(found)
    \/ EnrichReject
    \/ RaceTimeout
    \/ \E out \in {"resolved", "rejected"} : EnrichLate(out)

InitRace == CoreIdle /\ RaceInit(DetailMatches) /\ ParseIdle /\ CodIdle /\ HttpIdle /\ StandIdle /\ CalIdle /\ OrientIdle /\ PhaseIdle /\ BracketIdle /\ OverlapIdle /\ UseinitIdle /\ FieldsIdle /\ AsyncIdle /\ FilterIdle

SpecRace == InitRace /\ [][NextRace]_vars /\ WF_vars(RaceWait) /\ WF_vars(RaceTimeout)

\* extractBracketPopupGames on one input; the loop keeps running.
NextBracket ==
    \/ BracketIteration
    \/ BracketReturn

InitBracket == CoreIdle /\ BracketInit(HtmlInputs) /\ ParseIdle /\ CodIdle /\ HttpIdle /\ StandIdle /\ CalIdle /\ OrientIdle /\ PhaseIdle /\ RaceIdle /\ OverlapIdle /\ UseinitIdle /\ FieldsIdle /\ AsyncIdle /\ FilterIdle

SpecBracket == InitBracket /\ [][NextBracket]_vars /\ WF_vars(NextBracket)

\* The calendar hook and the settings screen call scheduleMatchReminders;
\* each call is a chain of awaits, so the two calls interleave at every await.
NextOverlap ==
    \E c \in ReminderCallers :
        \/ OverlapCall(c)
        \/ OverlapCancelAll(c)
        \/ OverlapPrefsLoaded(c)
        \/ \E ok \in BOOLEAN : OverlapScheduleOne(c, ok)

InitOverlap == CoreIdle /\ OverlapInit(ReminderLists) /\ ParseIdle /\ CodIdle /\ HttpIdle /\ StandIdle /\ CalIdle /\ OrientIdle /\ PhaseIdle /\ RaceIdle /\ BracketIdle /\ UseinitIdle /\ FieldsIdle /\ AsyncIdle /\ FilterIdle

SpecOverlap == InitOverlap /\ [][NextOverlap]_vars

\* Components using useInitialize mount and unmount while the shared
\* initialization runs.  React runs the effect of every rendered component
\* and every re-render asked for, and the initialization promise settles.
NextUseinit ==
    \/ \E c \in Components :
          \/ ComponentRender(c)
          \/ ComponentEffect(c)
          \/ ComponentRerender(c)
          \/ ComponentUnmount(c)
    \/ \E ok \in BOOLEAN : InitSettled(ok)

InitUseinit == CoreIdle /\ UseinitInit /\ ParseIdle /\ CodIdle /\ HttpIdle /\ StandIdle /\ CalIdle /\ OrientIdle /\ PhaseIdle /\ RaceIdle /\ BracketIdle /\ OverlapIdle /\ FieldsIdle /\ AsyncIdle /\ FilterIdle

SpecUseinit ==
    /\ InitUseinit
    /\ [][NextUseinit]_vars
    /\ \A c \in Components : WF_vars(ComponentEffect(c)) /\ WF_vars(ComponentRerender(c))
    /\ WF_vars(\E ok \in BOOLEAN : InitSettled(ok))

\* One batch of PandaScore matches through one public query.
NextFields ==
    \/ FetchWithStandings
    \/ FetchWithoutStandings

InitFields == CoreIdle /\ FieldsInit(FieldQueries, RawBatches) /\ ParseIdle /\ CodIdle /\ HttpIdle /\ StandIdle /\ CalIdle /\ OrientIdle /\ PhaseIdle /\ RaceIdle /\ BracketIdle /\ OverlapIdle /\ UseinitIdle /\ AsyncIdle /\ FilterIdle

SpecFields == InitFields /\ [][NextFields]_vars

\* One mounted component using useAsync: its inputs change, refresh is
\* triggered, fetches settle in any order, the component unmounts.
NextAsync ==
    \/ DepsChange
    \/ Refresh
    \/ \E f \in 1 .. MaxFetches : FetchResolved(f)
    \/ \E f \in 1 .. MaxFetches : FetchRejected(f)
    \/ HookUnmount

InitAsync == CoreIdle /\ AsyncInit /\ ParseIdle /\ CodIdle /\ HttpIdle /\ StandIdle /\ CalIdle /\ OrientIdle /\ PhaseIdle /\ RaceIdle /\ BracketIdle /\ OverlapIdle /\ UseinitIdle /\ FieldsIdle /\ FilterIdle

SpecAsync == InitAsync /\ [][NextAsync]_vars

\* The calendar screen: the upcoming list loads and reloads, the user changes
\* the game filter.
NextFilter ==
    \/ \E data \in SUBSET FilterMatches : FilterDataLoaded(data)
    \/ \E g \in GameFilters : SetGameFilter(g)

InitFilter == CoreIdle /\ FilterInit /\ ParseIdle /\ CodIdle /\ HttpIdle /\ StandIdle /\ CalIdle /\ OrientIdle /\ PhaseIdle /\ RaceIdle /\ BracketIdle /\ OverlapIdle /\ UseinitIdle /\ FieldsIdle /\ AsyncIdle

SpecFilter == InitFilter /\ [][NextFilter]_vars

(***************************************************************************)
(* Claims                                                                  *)
(***************************************************************************)
Settled(p) == pc[p] \in {"done", "matches", "games", "divisions"}

\* C1: while one discovery is in flight, further calls of initializeKoiTeams
\* start no second findKoiTeams sequence, and the callers of one discovery all
\* settle with the same id set.
C1_SingleDiscovery ==
    /\ InFlight <= 1
    /\ \A p, q \in burst : Settled(p) /\ Settled(q) => seen[p] = seen[q]

\* C2: any two requests released by the rate-limit gate start at least the
\* minimum interval apart, also when several page fetches enter the gate
\* together.
C2_MinIntervalApart == gap = NoTime \/ gap >= MinInterval

\* C3: a call made while a completed call of the same query is within its TTL
\* issues no network request and returns the data of that call.
C3_SecondCallFromCache ==
    \A p \in Callers :
        pc[p] = "done" /\ prior[p].has => ~issued[p] /\ result[p] = prior[p].data

\* The entries of a list, and the keys of a list.
Entries(list) == {list[i] : i \in DOMAIN list}
Keys(list) == {NormalizeName(list[i].name) : i \in DOMAIN list}

\* C4: the merge keeps exactly one entry per normalized name, the one of the
\* earliest source that holds the name; a name held by the wiki list and by the
\* curated list comes out in the wiki's version.
C4_FirstSourceWins ==
    /\ mphase = "merged" =>
          \A k \in Keys(lpTournaments) \cup Keys(curated) :
              /\ Cardinality({i \in DOMAIN unified : NormalizeName(unified[i].name) = k}) = 1
              /\ \E i \in DOMAIN unified :
                    /\ NormalizeName(unified[i].name) = k
                    /\ unified[i] \in (IF k \in Keys(lpTournaments)
                                       THEN Entries(lpTournaments) ELSE Entries(curated))
    /\ mphase = "fetched" /\ lpTournaments # <<>> =>
          \A t \in Entries(unified) :
              NormalizeName(t.name) \in Keys(lpTournaments) => t \in Entries(lpTournaments)

\* Both lists hold a name, in different spellings, and the merge has run.
C4_Witness ==
    /\ mphase = "merged"
    /\ \E w \in Entries(lpTournaments), c \in Entries(curated) :
          /\ w.name # c.name
          /\ NormalizeName(w.name) = NormalizeName(c.name)
          /\ w \in Entries(unified)

\* C5: a wiki that yields nothing (an empty list or an error) gives exactly the
\* curated dataset; a wiki that yields a tournament does not give the curated
\* dataset wholesale.
C5_FallbackWholesale ==
    /\ mphase = "threw" \/ (mphase = "fetched" /\ lpTournaments = <<>>) => unified = curated
    /\ mphase = "fetched" /\ lpTournaments # <<>> =>
          /\ unified # curated
          /\ Head(unified) = Head(lpTournaments)
          /\ \A t \in Entries(unified) : t.from = "curated" => t.status = "upcoming"

\* The wiki threw and the curated dataset, completed entries and repeated names
\* included, came back.
C5_Witness ==
    /\ mphase = "threw"
    /\ Len(curated) = 2
    /\ NormalizeName(curated[1].name) = NormalizeName(curated[2].name)
    /\ curated[1].status = "completed"
    /\ unified = curated

\* C6: after a discovery whose attempts all failed the id set is empty and the
\* upcoming, live and past queries return empty lists.
C6_FailedDiscoveryIsEmpty ==
    /\ lastDiscovery = "failed" => koiPandaTeamIds = {}
    /\ \A p \in Callers :
          pc[p] = "done" /\ op[p] \in MatchKinds /\ afterFail[p] => result[p] = {}

C8_OneRetryAfter429 ==
    \A f \in Fetches :
        /\ requests[f] <= 2
        /\ requests[f] = 2 => waited[f] >= RETRY_DELAY
        /\ fpc[f] = "backoff" => requests[f] = 1
        /\ fpc[f] = "done" /\ requests[f] = 1 => lastStatus[f] # 429
        /\ fpc[f] = "done" /\ requests[f] = 2 =>
              outcome[f] = IF lastStatus[f] = 200 THEN "retry" ELSE "nodata"

\* A page fetch was answered 429, retried and got the body of the retry.
C8_Witness ==
    \E f \in Fetches :
        fpc[f] = "done" /\ requests[f] = 2 /\ lastStatus[f] = 200 /\ outcome[f] = "retry"

\* The opponents of the match that are in the id set.
KoiOpponents == {i \in DOMAIN pandaMatch.opponents : pandaMatch.opponents[i] \in koiTeamIds}

\* The score the source gives team id, if any.
OwnScore(id) ==
    IF \E r \in Entries(pandaMatch.results) : r.team_id = id
    THEN (CHOOSE r \in Entries(pandaMatch.results) : r.team_id = id).score
    ELSE Undefined

\* C9: a mapped match with exactly one opponent in the id set has that opponent
\* as home side, with its own score and as owning team, in whichever position
\* the source lists it.
C9_KoiIsHome ==
    mapPhase = "mapped" /\ ~mapped.isNull /\ Cardinality(KoiOpponents) = 1 =>
        LET koi == pandaMatch.opponents[CHOOSE i \in KoiOpponents : TRUE]
        IN /\ mapped.homeTeam.id = koi
           /\ mapped.teamId = koi
           /\ mapped.homeTeam.score = OwnScore(koi)
           /\ mapped.awayTeam.id \notin koiTeamIds
           /\ mapped.awayTeam.score = OwnScore(mapped.awayTeam.id)

\* The organization's team is listed second, with its result listed second too,
\* and is the home side.
C9_Witness ==
    /\ mapPhase = "mapped" /\ ~mapped.isNull
    /\ KoiOpponents = {2}
    /\ Len(pandaMatch.results) = 2
    /\ pandaMatch.results[2].team_id = pandaMatch.opponents[2]
    /\ pandaMatch.results[1].score # pandaMatch.results[2].score
    /\ mapped.homeTeam.id = pandaMatch.opponents[2]

\* The matches that are due a reminder: upcoming, of a team with enabled and
\* matchReminders set, kicking off more than 15 minutes from now.
Due ==
    {i \in DOMAIN matches :
        /\ matches[i].status = "upcoming"
        /\ \E p \in Entries(prefs) : p.teamId = matches[i].teamId /\ p.enabled /\ p.matchReminders
        /\ matches[i].kickoff - REMINDER_MINUTES > NotifNow}

\* C10: when scheduleMatchReminders completes (no scheduling call having
\* failed), the scheduled reminders are exactly one per due match, none is left
\* from before the call, and the count returned is the number scheduled.
C10_ExactlyTheDueReminders ==
    spc = "done" /\ ~schedFailed =>
        /\ {r.match : r \in Entries(notifications)} = Due
        /\ Len(notifications) = Cardinality(Due)
        /\ scheduledCount = Len(notifications)

\* The rows of the page whose end date has not passed.
FutureRows == {i \in DOMAIN pageRows : EndDate(pageRows[i].date) >= Today}

\* C11: in both schedule-page parsers, an event whose end date has not passed
\* but whose context holds no "TBD" marker is not in the upcoming list.
C11_NoMarkerNotUpcoming ==
    parsePhase = "parsed" =>
        \A i \in FutureRows :
            ~ContextHasTBD(pageRows, i) =>
                \A k \in DOMAIN upcomingEvents : upcomingEvents[k].row # i

\* The maps of the wiki match with the two sides exchanged.
Swapped(maps) ==
    [i \in DOMAIN maps |->
        CodMap(maps[i].awayScore, maps[i].homeScore)]

\* C12: whenever fetchCodMatchMaps returns map data, the maps are swapped when
\* the wiki's team1 is the caller's away team and unswapped when team1 is the
\* caller's home team.
C12_MapsInCallerOrientation ==
    codPc = "done" /\ codResult # <<>> =>
        codResult = IF wikiMatch.team1 = OtherTeam(codHome)
                    THEN Swapped(wikiMatch.maps) ELSE wikiMatch.maps

\* The suspensions of a caller on a request to the structured API.
ApiAwaits == {"find", "matches", "getMatch", "games", "divisions", "getTeam", "teamMatches"}

\* C13: without a token no public query has a request to the structured API
\* outstanding, the discovery runner never starts, and no query rejects.
C13_NoRequestWithoutToken ==
    ~configured =>
        /\ \A p \in Callers : pc[p] \notin ApiAwaits /\ ~faulted[p]
        /\ runner.pc = "none"

\* C14: when a match-list query whose cached entry has outlived its TTL fetches
\* again and the fetch answers, the answer is stored under the query's key with
\* the time of the answer as its timestamp.
C14_ExpiredEntryReplaced ==
    [][\A q \in MatchKinds :
          /\ op[1] = q /\ pc[1] = "matches" /\ pc'[1] = "done" /\ ~faulted'[1]
          /\ cache[CacheKey(q)].has /\ ~Fresh(cache, CacheKey(q), TTL(q), now)
          => /\ cache'[CacheKey(q)].has
             /\ cache'[CacheKey(q)].data = result'[1]
             /\ cache'[CacheKey(q)].timestamp = now]_vars

\* C15: every open call is settled in the end, whether or not the server
\* answers, so the query waiting on it resolves.
C15_EveryCallSettles ==
    \A c \in HttpCalls : (http[c].pc = "pending") ~> (http[c].pc = "done")

\* The English ordinal suffix of a positive number.
EnglishSuffix(n) ==
    IF n % 100 \in {11, 12, 13} THEN "th"
    ELSE CASE n % 10 = 1 -> "st" [] n % 10 = 2 -> "nd" [] n % 10 = 3 -> "rd"
           [] OTHER -> "th"

\* C16: once the standings of the match's tournament are resolved, standing and
\* opponentStanding of the listed teams are the rank with its correct English
\* suffix, over the number of standings entries.
C16_StandingIsOrdinalOverField ==
    standPhase = "resolved" =>
        /\ standingsIn.koiListed =>
              matchStanding.standing =
                  [rank |-> standingsIn.koiRank, suffix |-> EnglishSuffix(standingsIn.koiRank),
                   of |-> standingsIn.total]
        /\ standingsIn.oppListed =>
              matchStanding.opponentStanding =
                  [rank |-> standingsIn.oppRank, suffix |-> EnglishSuffix(standingsIn.oppRank),
                   of |-> standingsIn.total]

\* Ranks 3 and 1 in a field of 10 give "3rd / 10" and "1st / 10".
C16_Witness ==
    /\ standPhase = "resolved"
    /\ standingsIn.koiListed /\ standingsIn.oppListed
    /\ standingsIn.koiRank = 3 /\ standingsIn.oppRank = 1 /\ standingsIn.total = 10
    /\ matchStanding.standing = [rank |-> 3, suffix |-> "rd", of |-> 10]
    /\ matchStanding.opponentStanding = [rank |-> 1, suffix |-> "st", of |-> 10]

\* C17: whenever the upcoming list held by the calendar hook changes, the empty
\* list included, and nothing is loading after the change, the scheduler has
\* been called with the new list.
C17_SchedulerSeesEveryChange ==
    [][upcomingData' # upcomingData /\ ~(upLoading' \/ liveLoading')
          => reminderCall'.called /\ reminderCall'.with = upcomingData']_vars

\* C18: the queries that have returned the match all returned it with the same
\* home team.
C18_SameOrientationEverywhere ==
    \A q1, q2 \in OrientQueries :
        homeSeen[q1] # 0 /\ homeSeen[q2] # 0 => homeSeen[q1] = homeSeen[q2]

\* C19: every request sent to the wiki, the retry after a 429 included, leaves
\* the rate-limit gate in the step that sends it, and the gate records the time
\* of the request as the last-request time.
C19_EveryRequestThroughGate ==
    [][\A f \in Fetches :
          requests'[f] = requests[f] + 1 => lastRequestTime' = clock]_vars

\* 2 s after the first failed attempt, 4 s after the second, in milliseconds.
RECURSIVE ExponentialDelay(_)
ExponentialDelay(attempt) == IF attempt <= 1 THEN 2000 ELSE 2 * ExponentialDelay(attempt - 1)

\* C20: a discovery run never goes beyond MAX_RETRIES attempts, ends at the
\* first attempt that succeeds, and after every failed attempt waits, 2 s after
\* the first and 4 s after the second, before it tries again or gives up.
C20_BackoffAfterEveryFailedAttempt ==
    [][/\ runner'.attempt <= MAX_RETRIES
       /\ runner.pc = "find" /\ runner' # runner =>
             \/ runner' = NoRunner /\ lastDiscovery' = "ok"
             \/ runner'.pc = "backoff" /\ runner'.delay = ExponentialDelay(runner.attempt)]_vars

\* C21: every Tournament built by a source builder has its phases in
\* ascending day order and at most one phase with status live.
LivePhases(t) == {i \in DOMAIN t.phases : t.phases[i].status = "live"}

C21_PhasesAscendingOneLive ==
    buildPc = "built" =>
        /\ \A i, j \in DOMAIN tournament.phases :
              i < j => tournament.phases[i].day < tournament.phases[j].day
        /\ Cardinality(LivePhases(tournament)) <= 1

C23_BracketLoopTerminates ==
    /\ [][BracketIteration => searchStart' > lastIdx']_vars
    /\ <>(bracketPc = "returned")

\* C24: once every overlapping scheduleMatchReminders call has completed,
\* at most one reminder is scheduled per match.
C24_OneReminderPerMatch ==
    (\A c \in ReminderCallers : runs[c].pc = "done") =>
        \A m \in ReminderIds : osScheduled[m] <= 1

C26_DegradedResultNotCached ==
    [][\A p \in Callers :
          (impl = "singleton" /\ pc[p] # "done" /\ pc'[p] = "done" /\ faulted'[p])
              => cache'[CacheKey(op[p])] = cache[CacheKey(op[p])]]_vars

\* C27: no Match returned by a public query carries _tournamentId, _serieId,
\* _koiTeamId or _opponentTeamId.
C27_NoInternalFieldsReturned ==
    fieldsPc = "returned" => \A i \in DOMAIN outBatch : outBatch[i] = {}

\* C28: parseUpcomingEventsFromSeasonPage includes every tournament link that
\* lies in an allowed region and has a date not yet passed with a TBD marker,
\* also when a link of the same name came earlier on the page in a region
\* that is not allowed.
C28_QualifyingLinkIncluded ==
    parsePhase = "parsed" /\ parser = "tft" =>
        \A i \in FutureRows :
            pageRows[i].region \in KOI_TFT_REGIONS /\ ContextHasTBD(pageRows, i) =>
                \E k \in DOMAIN upcomingEvents : upcomingEvents[k].name = pageRows[i].name

\* C29: the data useAsync holds is never replaced by the result of a fetch
\* started earlier than the one whose result is held (an older fetch that
\* resolves later does not win), and no state is set after the component
\* has unmounted.
C29_LatestFetchWins ==
    /\ [][hookData' >= hookData]_vars
    /\ [](~lateSet)

\* C30: whatever game filter the calendar has, every upcoming match of a
\* reminder-enabled team, of any game, has its reminder.
C30_RemindersIgnoreFilter ==
    \A m \in stateData : m.enabled => m \in reminders

====
